---- MODULE Spec2Model ----
(***************************************************************************)
(* State-machine model of the shop backend of zeynbot5:                    *)
(*   src/functions/api.js  POST /buy (the purchase transaction)            *)
(*   src/inventory.js      inventorySchema (lines 3-12)                    *)
(* The three collections CommandStats, Item and Inventory are the          *)
(* committed database.  Every POST /buy runs in its own session and        *)
(* multi-document transaction: it reads from the snapshot taken by its     *)
(* first read, stages its writes, and a write to a document that another   *)
(* transaction wrote since that snapshot (committed or still pending)      *)
(* is rejected with a write conflict, which the handler's catch block      *)
(* turns into an abort and a 500.  Each await of the handler is one step.  *)
(***************************************************************************)
EXTENDS Integers, Sequences, FiniteSets, TLC

\* ------------------------------------------------------------------ bounds
Reqs == {1, 2}            \* request slots that may be in flight together
MaxRequests == 2          \* POST /buy requests issued in one behaviour
MaxQuantity == 2          \* largest quantity in a request body

\* --------------------------------------------------------------- constants
GUILD_ID == "1043562997966188645"
DiscountRole == "1260383669839724634"
WeekendDiscount == 5
RoleDiscount == 20
Unlimited == -1

Users == {"u1", "u2"}                 \* userId of the stored CommandStats
Uuids == {"a1", "a2"}
\* the (uuid, userId) pairs of request bodies: the stored ones and a mismatch
Logins == {<<"a1", "u1">>, <<"a2", "u2">>, <<"a2", "u1">>}
UuidOf(u) == IF u = "u1" THEN "a1" ELSE "a2"
Items == {"i1", "i2"}                 \* _id of the stored Item documents
ItemNames == {"n1", "n2", "nx"}       \* "nx" names no item
NameOf(i) == IF i = "i1" THEN "n1" ELSE "n2"
\* the quantities of a body: a single unit or the largest
Quantities == {1, MaxQuantity}
Days == 0..6                          \* Date.prototype.getDay()

VARIABLES
  db,        \* committed documents: CommandStats, Item, Inventory
  req,       \* per request slot: position and locals of the /buy handler
  holders,   \* the platform's members that hold the discount role
  issued,    \* number of POST /buy requests received so far
  initial,   \* the documents as they were at start (never changes)
  quote,     \* the price computation on its own: inputs and result
  rank,      \* GET /profile/:uuid ranks: the stored counters and the answers
  ach,       \* the achievement evaluation: a stored record and the answers
  prof,      \* GET /profile/:uuid of one user: clock, stored record, cache, requests
  logins,    \* the Discord login of one user: clock, stored record, member cache, logins
  counter,   \* GET /: the Counter collection and the requests
  board,     \* GET /leaderboard: clock, cache entries, requests
  cli,       \* a purchase seen from the caches: server entries, client caches, the buyer
  guild,     \* fetchUserGuildMember: the member cache, the platform, the calls
  view,      \* the shop page: one item, its quantity controls and buy button
  tab        \* the shop tab of one page: clock, throttle stamp, uuid, loads

\* the purchase side, and the variables of the other endpoints
shop == <<db, req, holders, issued, initial, quote>>
side == <<rank, ach, prof, logins, counter, board, cli, guild, view, tab>>
vars == <<shop, side>>

\* ------------------------------------------------------------- documents
NoUser == [userId |-> "null", uuid |-> "null", stars |-> 0]
NoItem == [id |-> "null", name |-> "null", price |-> 0, stock |-> 0]
NoInventory == [userId |-> "null", guildId |-> "null", items |-> <<>>]
NoBody == [uuid |-> "null", userId |-> "null", itemName |-> "null", quantity |-> 0]
NoWrite == [stars |-> FALSE, stock |-> FALSE, inventory |-> FALSE]
NoDb == [CommandStats |-> <<>>, Item |-> <<>>, Inventory |-> <<>>]

\* new Inventory({ userId, items: [] }): guildId is left undefined
NewInventory(userId) == [userId |-> userId, guildId |-> "undefined", items |-> <<>>]

\* inventorySchema: userId and guildId are required
ValidInventory(doc) == doc.userId # "undefined" /\ doc.guildId # "undefined"

Idle ==
  [pc |-> "idle", body |-> NoBody, user |-> NoUser, item |-> NoItem,
   discountedPrice |-> 0,
   inventory |-> NoInventory, inventoryIndex |-> 0,
   txn |-> "none", snapshot |-> NoDb, written |-> NoWrite, stale |-> {},
   thrown |-> "none", status |-> 0, error |-> "none", sessionEnded |-> FALSE]

\* ----------------------------------------------------------------- queries
\* variant: the lookup filters on userId alone
FindUserDocByUserId(d, uuid, userId) ==
  IF userId \in Users THEN d.CommandStats[userId] ELSE NoUser

\* CommandStats.findOne({ uuid, userId })
FindUserDoc(d, uuid, userId) ==
  IF userId \in Users /\ d.CommandStats[userId].uuid = uuid
  THEN d.CommandStats[userId] ELSE NoUser

\* Item.findOne({ name: itemName })
FindItemDoc(d, itemName) ==
  IF \E i \in Items : d.Item[i].name = itemName
  THEN d.Item[CHOOSE i \in Items : d.Item[i].name = itemName]
  ELSE NoItem

\* Inventory.findOne({ userId }): index of the first matching document, 0 if none
FindInventoryIndex(d, userId) ==
  IF \E k \in 1..Len(d.Inventory) : d.Inventory[k].userId = userId
  THEN CHOOSE k \in 1..Len(d.Inventory) :
         /\ d.Inventory[k].userId = userId
         /\ \A j \in 1..(k - 1) : d.Inventory[j].userId # userId
  ELSE 0

\* inventory.items.findIndex(i => i.itemId.toString() === item._id.toString())
FindLineIndex(lines, itemId) ==
  IF \E k \in 1..Len(lines) : lines[k].itemId = itemId
  THEN CHOOSE k \in 1..Len(lines) :
         /\ lines[k].itemId = itemId
         /\ \A j \in 1..(k - 1) : lines[j].itemId # itemId
  ELSE 0

\* ---------------------------------------------------------------- pricing
\* Math.round(n / d) for n >= 0, d > 0: halves go up
MathRound(n, d) == (2 * n + d) \div (2 * d)

\* Math.round(item.price * (1 - discountPercentage / 100))
DiscountedPrice(price, discountPercentage) ==
  MathRound(price * (100 - discountPercentage), 100)

\* isDiscountDay ? 5 : 0
DayDiscount(day) == IF day = 0 \/ day = 6 THEN WeekendDiscount ELSE 0

\* variant: the role discount compounds with the weekend discount
WithRoleDiscountCompounded(discountPercentage, hasRole) ==
  IF hasRole
  THEN 100 - ((100 - discountPercentage) * (100 - RoleDiscount)) \div 100
  ELSE discountPercentage

\* if (hasPermanentDiscountRole) discountPercentage += 20
WithRoleDiscount(discountPercentage, hasRole) ==
  IF hasRole THEN discountPercentage + RoleDiscount ELSE discountPercentage

\* variant: the unlimited sentinel is not exempted
InsufficientStockNoSentinel(item, quantity) == item.stock < quantity

\* item.stock !== -1 && item.stock < quantity
InsufficientStock(item, quantity) == item.stock # Unlimited /\ item.stock < quantity

\* variant: the balance is compared with the price of one unit
InsufficientFundsForOne(user, discountedPrice, quantity) == user.stars < discountedPrice

\* variant: a balance equal to the total is refused
InsufficientFundsInclusive(user, discountedPrice, quantity) ==
  user.stars <= discountedPrice * quantity

\* user.stars < discountedPrice * quantity
InsufficientFunds(user, discountedPrice, quantity) == user.stars < discountedPrice * quantity

\* variant: an existing line gets the quantity assigned, not added
UpsertLineAssign(lines, item, quantity) ==
  LET k == FindLineIndex(lines, item.id) IN
  IF k # 0
  THEN [lines EXCEPT ![k].quantity = quantity]
  ELSE Append(lines, [itemId |-> item.id, itemName |-> item.name, quantity |-> quantity])

\* variant: a line is pushed whether or not the item has one
UpsertLineAlwaysPush(lines, item, quantity) ==
  Append(lines, [itemId |-> item.id, itemName |-> item.name, quantity |-> quantity])

\* lines 460-465: the upsert of the inventory line
UpsertLine(lines, item, quantity) ==
  LET k == FindLineIndex(lines, item.id) IN
  IF k # 0
  THEN [lines EXCEPT ![k].quantity = @ + quantity]
  ELSE Append(lines, [itemId |-> item.id, itemName |-> item.name, quantity |-> quantity])

\* ------------------------------------------------------------ transactions
Active(r) == req[r].txn = "active"

\* documents a transaction has staged: "stars:u", "stock:i", "inventory:k"
StarsKey(r) == <<"stars", req[r].user.userId>>
StockKey(r) == <<"stock", req[r].item.id>>
InventoryKey(r) == <<"inventory", req[r].inventoryIndex>>

WriteSet(r) ==
  (IF req[r].written.stars THEN {StarsKey(r)} ELSE {})
    \cup (IF req[r].written.stock THEN {StockKey(r)} ELSE {})
    \cup (IF req[r].written.inventory /\ req[r].inventoryIndex # 0
          THEN {InventoryKey(r)} ELSE {})

\* variant: the writes do not run in the transaction, so none conflicts
NoWriteConflict(r, key) == FALSE

\* WriteConflict: the document was written by a transaction that committed
\* after this one's snapshot, or is held by another open transaction
WriteConflict(r, key) ==
  \/ key \in req[r].stale
  \/ \E o \in Reqs \ {r} : Active(o) /\ key \in WriteSet(o)

\* the database after the transaction's staged writes are applied
Committed(r) ==
  LET q == req[r]
      stats == IF q.written.stars
               THEN [db.CommandStats EXCEPT ![q.user.userId].stars = q.user.stars]
               ELSE db.CommandStats
      its == IF q.written.stock
             THEN [db.Item EXCEPT ![q.item.id].stock = q.item.stock]
             ELSE db.Item
      inv == IF ~q.written.inventory THEN db.Inventory
             ELSE IF q.inventoryIndex = 0 THEN Append(db.Inventory, q.inventory)
             ELSE [db.Inventory EXCEPT ![q.inventoryIndex] = q.inventory]
  IN [CommandStats |-> stats, Item |-> its, Inventory |-> inv]

Set(r, rec) == req' = [req EXCEPT ![r] = rec]

\* the handler has answered and returned: the transaction's fate, what it
\* had written and the response are kept
Done(q, txn, status, error) ==
  [Idle EXCEPT !.pc = "done", !.txn = txn, !.written = q.written,
               !.status = status, !.error = error, !.sessionEnded = TRUE]

\* variant: an early return that answers without abortTransaction
RejectWithoutAbort(q, s, e) ==
  [Done(q, "active", s, e) EXCEPT !.body = q.body,
                                  !.discountedPrice = q.discountedPrice]

\* await session.abortTransaction(); session.endSession();
\* return res.status(s).json({ error }): kept with the request it answers
Reject(q, s, e) ==
  [Done(q, "aborted", s, e) EXCEPT !.body = q.body,
                                   !.discountedPrice = q.discountedPrice]

\* the catch block is entered with the error e: the locals are dead, the
\* staged writes stay held until abortTransaction
Thrown(q, txn, e) ==
  [Idle EXCEPT !.pc = "catch", !.txn = txn, !.thrown = e,
               !.user = [NoUser EXCEPT !.userId = q.user.userId],
               !.item = [NoItem EXCEPT !.id = q.item.id],
               !.inventoryIndex = q.inventoryIndex, !.written = q.written]

\* ------------------------------------------------------------------- Init
InitDb(hasInventory) ==
  [CommandStats |->
     [u \in Users |-> [userId |-> u, uuid |-> UuidOf(u),
                       stars |-> IF u = "u1" THEN 150 ELSE 100]],
   Item |->
     [i \in Items |-> [id |-> i, name |-> NameOf(i),
                       price |-> IF i = "i1" THEN 100 ELSE 0,
                       stock |-> IF i = "i1" THEN 2 ELSE Unlimited]],
   Inventory |->
     <<[userId |-> "u1", guildId |-> GUILD_ID,
        items |-> <<[itemId |-> "i2", itemName |-> "n2", quantity |-> 1]>>]>>
     \o (IF hasInventory
         THEN <<[userId |-> "u2", guildId |-> GUILD_ID, items |-> <<>>]>>
         ELSE <<>>)]

\* displayed, shownPrice: the price the shop page shows for the same inputs
NoQuote == [price |-> 0, day |-> 0, hasRole |-> FALSE, computed |-> FALSE,
            discountedPrice |-> 0, displayed |-> FALSE, shownPrice |-> 0]

\* ----------------------------------------------- the other endpoints' data
MaxCount == 2             \* most messages counted in one record, over its counters

Members == {"m1", "m2", "m3"}        \* the stored CommandStats of the ranking
Metrics == {"totalMessages", "messagesToday", "messagesLast7Days", "messagesLast30Days"}
NoRanks == [userRankAllTime |-> 0, userRankToday |-> 0,
            userRankLast7Days |-> 0, userRankLast30Days |-> 0]
NoCounters == [k \in Metrics |-> 0]
\* the message counters a stored record may hold
Counters ==
  {c \in [Metrics -> 0..MaxCount] :
     c["totalMessages"] + c["messagesToday"] + c["messagesLast7Days"]
       + c["messagesLast30Days"] <= MaxCount}
NoRank == [stats |-> [m \in Members |-> NoCounters],
           answer |-> [m \in Members |-> NoRanks]]


MaxOver == 1              \* how far the inputs go beyond an achievement target

MessageTarget == 500      \* target of message_master
VoiceTarget == 3600       \* target of voice_time_10s, in seconds
NoTarget == 0             \* a catalog entry without a target
AchievementNames == {"message_master", "voice_champion", "lovebird", "voice_time_10s"}
\* the persisted achievement records of a user: name and completed flag
PersistedRecords == (AchievementNames \cup {"other"}) \X BOOLEAN
MessageInputs == {0} \cup ((MessageTarget - MaxOver)..(MessageTarget + MaxOver))
VoiceInputs ==
  {sec * 1000 + ms : sec \in {0, 5} \cup ((VoiceTarget - MaxOver)..(VoiceTarget + MaxOver)),
                     ms \in {0, 999}}
NoAch == [userStats |-> [messagesToday |-> 0, voiceTime |-> 0, achievements |-> {}],
          profile |-> <<>>, list |-> <<>>]


MaxProfileRequests == 3   \* GET /profile/:uuid requests for the user
MaxVersion == 2           \* changes made to the stored record of the user
MaxTicks == 3             \* clock advances, each of half a cache lifetime

ProfileTtl == 300         \* cache.set(cacheKey, profileData, 300), in seconds
ProfileReqs == 1..MaxProfileRequests
NoCacheEntry == [set |-> FALSE, body |-> <<>>, t |-> 0]
ProfileIdle == [pc |-> "idle", userStats |-> <<>>, body |-> <<>>, status |-> 0,
                window |-> {}, setAt |-> 0, stored |-> FALSE]
NoProf == [now |-> 0, version |-> 0, entry |-> NoCacheEntry, member |-> FALSE,
           reqs |-> [p \in ProfileReqs |-> ProfileIdle]]


MaxLogins == 2            \* logins of the user
MaxLoginTime == 3         \* last instant of the login clock
MaxPurchases == 1         \* purchases the user commits while logging in

LoginReqs == 1..MaxLogins
AllowedRoles == {"r1", "r2"}          \* roles of allowedRoleIds
GuildRoles == AllowedRoles \cup {"rx"}   \* and a role outside the list
PurchaseCosts == {40, 80}             \* discountedPrice * quantity of a purchase
NoDates == [role \in AllowedRoles |-> 0]      \* 0: no date recorded
\* lines 142-148: new CommandStats({...}), the document of a first login
NewCommandStats == [stars |-> 0, roleAcquisitionDates |-> NoDates]
LoginIdle == [pc |-> "idle", user |-> NewCommandStats, error |-> FALSE]
\* stored: the collection holds the record of the user
NoLogin == [now |-> 1, stored |-> TRUE,
            user |-> [stars |-> 100, roleAcquisitionDates |-> NoDates],
            roles |-> {}, member |-> <<>>, purchases |-> 0,
            procs |-> [l \in LoginReqs |-> LoginIdle]]


MaxHits == 3              \* GET / requests
MaxStartCount == 1        \* largest count stored before the first request

HitReqs == 1..MaxHits
HitIdle == [pc |-> "idle", isNew |-> FALSE, count |-> 0, status |-> 0]
\* docs: the counts of the Counter documents in insertion order
NoCounter == [docs |-> <<>>, start |-> 0, saved |-> 0,
              procs |-> [h \in HitReqs |-> HitIdle]]


MaxBoardRequests == 2     \* GET /leaderboard requests
MaxBoardTicks == 4        \* clock advances of the leaderboard

LEADERBOARD_CACHE_TTL == 5 * 60
LeaderboardTtlMs == LEADERBOARD_CACHE_TTL * 1000
BoardReqs == 1..MaxBoardRequests
SortKeys == {"totalMessages", "stars"}     \* two of the values of sortBy
\* and voiceTime, and a value that names no metric
SortByValues == SortKeys \cup {"voiceTime", "activity"}
Pages == {1, 2}
DefaultLimit == 50        \* parseInt(req.query.limit) || 50
Limits == {1, DefaultLimit}
\* the stored CommandStats of the leaderboard, no two equal on a metric
BoardUsers == {"ann", "bob", "cyd"}
BoardStore ==
  [u \in BoardUsers |->
     [username |-> u,
      totalMessages |-> IF u = "ann" THEN 30 ELSE IF u = "bob" THEN 20 ELSE 10,
      voiceTime |-> IF u = "ann" THEN 10 ELSE IF u = "bob" THEN 30 ELSE 20,
      stars |-> IF u = "ann" THEN 20 ELSE IF u = "bob" THEN 10 ELSE 30]]
\* the clock advances by a millisecond or by just under the cache lifetime
ClockSteps == {1, LeaderboardTtlMs - 2}
BoardIdle == [pc |-> "idle", sortBy |-> "totalMessages", page |-> 1,
              limit |-> DefaultLimit, cachedData |-> <<>>,
              topUsers |-> <<>>, status |-> 0, fromCache |-> FALSE, data |-> <<>>,
              nextUpdateIn |-> 0, ageAtTest |-> 0, ageAtAnswer |-> 0]
NoBoard == [now |-> 0, ticks |-> 0,
            entries |-> [k \in SortByValues |-> NoCacheEntry],
            reqs |-> [b \in BoardReqs |-> BoardIdle]]


MaxCacheTicks == 3        \* clock advances, each of half a cache lifetime
MaxBuys == 2              \* purchases the client attempts

NoRead == [body |-> <<>>, at |-> 0, purchases |-> 0]
NoCli == [now |-> 0, stars |-> 100, purchases |-> 0, buys |-> 0,
          profileEntry |-> NoCacheEntry, achievementsEntry |-> NoCacheEntry,
          cachedProfileData |-> <<>>, shopDataCache |-> <<>>,
          pc |-> "idle", cost |-> 0, lastProfile |-> NoRead]

\* a variable that the specification at hand does not use
Off == <<>>


MaxMemberCalls == 3       \* calls of fetchUserGuildMember
MaxMemberVersion == 1     \* times the platform's data of a member changes

GuildUsers == {"g1", "g2"}            \* userId of the members looked up
MemberCalls == 1..MaxMemberCalls
\* result: <<>> is null, <<d>> the member data d
CallIdle == [pc |-> "idle", userId |-> "null", contacted |-> FALSE, result |-> <<>>]
\* userGuildMemberCache = {}; remote: the member data the platform holds
NoGuild == [userGuildMemberCache |-> [u \in GuildUsers |-> <<>>],
            remote |-> [u \in GuildUsers |-> 0],
            calls |-> [c \in MemberCalls |-> CallIdle]]


MaxViewQuantity == 3      \* largest quantity chosen with the plus button

ViewStars == {0, 50, 100, 150}        \* userStars of the profile
ViewPrices == {0, 50}                 \* discountedPrice of the item shown
ViewStocks == {Unlimited, 0, 1, 2}    \* item.stock
\* one item of the shop page: its quantity and its buy button
NoView == [userStars |-> 0, discountedPrice |-> 0, stock |-> 0,
           rendered |-> FALSE, quantity |-> 0, disabled |-> FALSE]


MaxTabTicks == 3          \* clock advances of the page
MaxTabClicks == 3         \* clicks on the shop tab

ThrottleMs == 5000
\* the clock advances by a millisecond or by just under the throttle window
TabSteps == {1, ThrottleMs - 1}
TabUuids == {"null", "a1"}            \* "null": getItem or get returns null
\* one page: Date.now() is far beyond the window when the script starts;
\* loads: the instants at which a tab click called displayShopData
NoTab == [now |-> 2 * ThrottleMs, ticks |-> 0, clicks |-> 0,
          shopTabLastClicked |-> 0, cachedUuid |-> "null",
          localStorage |-> "null", searchParams |-> "null",
          shopDataCache |-> <<>>, loading |-> 0, loads |-> <<>>]

\* every variable of the other endpoints at rest
SideIdle ==
  /\ rank = Off
  /\ ach = Off
  /\ prof = Off
  /\ logins = Off
  /\ counter = Off
  /\ board = Off
  /\ cli = Off
  /\ guild = Off
  /\ view = Off
  /\ tab = Off

\* the purchase side at rest
ShopIdle ==
  /\ db = Off
  /\ req = Off
  /\ holders = Off
  /\ issued = Off
  /\ initial = Off
  /\ quote = Off

Init ==
  /\ \E hasInventory \in BOOLEAN : db = InitDb(hasInventory)
  /\ req = [r \in Reqs |-> Idle]
  /\ holders = {"u1"}
  /\ issued = 0
  /\ initial = db
  /\ quote = NoQuote
  /\ SideIdle

\* ---------------------------------------------------------------- actions
\* lines 400-405: the request arrives; startSession, startTransaction, the body
Receive(r, uuid, userId, itemName, quantity) ==
  /\ req[r].pc = "idle"
  /\ \A o \in Reqs : o < r => req[o].pc # "idle"
  /\ issued < MaxRequests
  /\ issued' = issued + 1
  /\ Set(r, [req[r] EXCEPT
               !.pc = "findUser", !.txn = "active",
               !.body = [uuid |-> uuid, userId |-> userId,
                         itemName |-> itemName, quantity |-> quantity]])
  /\ UNCHANGED <<db, holders, initial, quote, side>>

\* lines 407-412: CommandStats.findOne, the transaction's first read
FindUser(r) ==
  /\ req[r].pc = "findUser"
  /\ LET q == req[r]
         user == FindUserDoc(db, q.body.uuid, q.body.userId)
     IN IF user = NoUser
        THEN Set(r, Reject(q, 404, "UserNotFound"))
        ELSE Set(r, [q EXCEPT !.pc = "findItem", !.user = user, !.snapshot = db])
  /\ UNCHANGED <<db, holders, issued, initial, quote, side>>

\* lines 414-447: Item.findOne, the stock check, the discounts (weekend, then
\* the live role lookup), the price, the funds check, the debit in memory
FindItem(r) ==
  /\ req[r].pc = "findItem"
  /\ LET q == req[r]
         item == FindItemDoc(q.snapshot, q.body.itemName)
     IN IF item = NoItem
        THEN Set(r, Reject(q, 404, "ItemNotFound"))
        ELSE IF InsufficientStock(item, q.body.quantity)
        THEN Set(r, Reject(q, 400, "InsufficientStock"))
        ELSE \/ Set(r, Thrown([q EXCEPT !.item = item], "active", "PlatformError"))
             \/ \E day \in Days :
                  LET hasPermanentDiscountRole == q.body.userId \in holders
                      pct == WithRoleDiscount(DayDiscount(day), hasPermanentDiscountRole)
                      price == DiscountedPrice(item.price, pct)
                  IN IF InsufficientFunds(q.user, price, q.body.quantity)
                     THEN Set(r, Reject([q EXCEPT !.discountedPrice = price],
                                        400, "InsufficientFunds"))
                     ELSE Set(r, [q EXCEPT
                                    !.pc = "saveUser", !.item = item,
                                    !.discountedPrice = price,
                                    !.user.stars = @ - price * q.body.quantity])
  /\ UNCHANGED <<db, holders, issued, initial, quote, side>>

\* variant: user.save() without the session writes the debit at once
SaveUserNoSession(r) ==
  /\ req[r].pc = "saveUser"
  /\ LET q == req[r] IN
     /\ db' = [db EXCEPT !.CommandStats[q.user.userId].stars = q.user.stars]
     /\ IF q.item.stock # Unlimited
        THEN Set(r, [q EXCEPT !.pc = "saveItem", !.item.stock = @ - q.body.quantity])
        ELSE Set(r, [q EXCEPT !.pc = "saveInventory"])
  /\ UNCHANGED <<holders, issued, initial, quote, side>>

\* lines 448-451: user.save({ session }), then the in-memory stock decrement
SaveUser(r) ==
  /\ req[r].pc = "saveUser"
  /\ LET q == req[r]
         modified == q.user.stars # q.snapshot.CommandStats[q.user.userId].stars
     IN IF modified /\ WriteConflict(r, StarsKey(r))
        THEN Set(r, Thrown(q, "active", "WriteConflict"))
        ELSE IF q.item.stock # Unlimited
        THEN Set(r, [q EXCEPT !.pc = "saveItem", !.written.stars = modified,
                              !.item.stock = @ - q.body.quantity])
        ELSE Set(r, [q EXCEPT !.pc = "saveInventory", !.written.stars = modified])
  /\ UNCHANGED <<db, holders, issued, initial, quote, side>>

\* variant: item.save() without the session writes the decrement at once
SaveItemNoSession(r) ==
  /\ req[r].pc = "saveItem"
  /\ db' = [db EXCEPT !.Item[req[r].item.id].stock = req[r].item.stock]
  /\ Set(r, [req[r] EXCEPT !.pc = "saveInventory"])
  /\ UNCHANGED <<holders, issued, initial, quote, side>>

\* line 452: item.save({ session })
SaveItem(r) ==
  /\ req[r].pc = "saveItem"
  /\ LET q == req[r]
         modified == q.item.stock # q.snapshot.Item[q.item.id].stock
     IN IF modified /\ WriteConflict(r, StockKey(r))
        THEN Set(r, Thrown(q, "active", "WriteConflict"))
        ELSE Set(r, [q EXCEPT !.pc = "saveInventory", !.written.stock = modified])
  /\ UNCHANGED <<db, holders, issued, initial, quote, side>>

\* lines 455-466: Inventory.findOne, new Inventory when absent, the line
\* upsert, then inventory.save({ session }), validated against inventorySchema
SaveInventory(r) ==
  /\ req[r].pc = "saveInventory"
  /\ LET q == req[r]
         k == FindInventoryIndex(q.snapshot, q.body.userId)
         found == IF k = 0 THEN NewInventory(q.body.userId)
                  ELSE q.snapshot.Inventory[k]
         inventory == [found EXCEPT !.items = UpsertLine(@, q.item, q.body.quantity)]
         p == [q EXCEPT !.inventoryIndex = k]
     IN IF ~ValidInventory(inventory)
        THEN Set(r, Thrown(p, "active", "ValidationError"))
        ELSE IF k # 0 /\ WriteConflict(r, <<"inventory", k>>)
        THEN Set(r, Thrown(p, "active", "WriteConflict"))
        ELSE Set(r, [p EXCEPT !.pc = "commit", !.inventory = inventory,
                              !.written.inventory = TRUE, !.snapshot = NoDb])
  /\ UNCHANGED <<db, holders, issued, initial, quote, side>>

\* variant: the writes are applied and the handler then takes the error path
CommitThenThrows(r) ==
  /\ req[r].pc = "commit"
  /\ db' = Committed(r)
  /\ req' = [o \in Reqs |->
       IF o = r THEN Thrown(req[r], "committed", "DatabaseError")
       ELSE IF Active(o) THEN [req[o] EXCEPT !.stale = @ \cup WriteSet(r)]
       ELSE req[o]]
  /\ UNCHANGED <<holders, issued, initial, quote, side>>

\* lines 468-469 and 475: commitTransaction, the success response, endSession
Commit(r) ==
  /\ req[r].pc = "commit"
  /\ db' = Committed(r)
  /\ req' = [o \in Reqs |->
       IF o = r THEN Done(req[r], "committed", 200, "none")
       ELSE IF Active(o) THEN [req[o] EXCEPT !.stale = @ \cup WriteSet(r)]
       ELSE req[o]]
  /\ UNCHANGED <<holders, issued, initial, quote, side>>

\* line 468: commitTransaction rejects; nothing of the transaction is applied
CommitFails(r) ==
  /\ req[r].pc = "commit"
  /\ Set(r, Thrown(req[r], "commitFailed", "DatabaseError"))
  /\ UNCHANGED <<db, holders, issued, initial, quote, side>>

\* an awaited database call rejects (lines 407-466)
Fail(r) ==
  /\ req[r].pc \in {"findUser", "findItem", "saveUser", "saveItem", "saveInventory"}
  /\ Set(r, Thrown(req[r], "active", "DatabaseError"))
  /\ UNCHANGED <<db, holders, issued, initial, quote, side>>

\* variant: the catch block answers with the success message
CatchAnswersSuccess(r) ==
  /\ req[r].pc = "catch"
  /\ Set(r, Done(req[r], "aborted", 200, "none"))
  /\ UNCHANGED <<db, holders, issued, initial, quote, side>>

\* lines 470-476: abortTransaction, the 500 response, endSession.  After a
\* failed commit the driver may refuse the abort; then no response is sent.
Catch(r) ==
  /\ req[r].pc = "catch"
  /\ \/ Set(r, Done(req[r], "aborted", 500, "PurchaseFailed"))
     \/ /\ req[r].txn = "commitFailed"
        /\ Set(r, Done(req[r], "commitFailed", 0, "none"))
  /\ UNCHANGED <<db, holders, issued, initial, quote, side>>

\* the handler has returned; the slot takes the next request
Finish(r) ==
  /\ req[r].pc = "done"
  /\ Set(r, Idle)
  /\ UNCHANGED <<db, holders, issued, initial, quote, side>>

Next ==
  \/ \E r \in Reqs, login \in Logins, itemName \in ItemNames, quantity \in Quantities :
       Receive(r, login[1], login[2], itemName, quantity)
  \/ \E r \in Reqs : FindUser(r)
  \/ \E r \in Reqs : FindItem(r)
  \/ \E r \in Reqs : SaveUser(r)
  \/ \E r \in Reqs : SaveItem(r)
  \/ \E r \in Reqs : SaveInventory(r)
  \/ \E r \in Reqs : Commit(r)
  \/ \E r \in Reqs : CommitFails(r)
  \/ \E r \in Reqs : Fail(r)
  \/ \E r \in Reqs : Catch(r)
  \/ \E r \in Reqs : Finish(r)

Spec == Init /\ [][Next]_vars


\* ------------------------------------------- the price computation alone
MaxPrice == 120           \* largest item price quoted

\* the inputs of one price computation: item.price, getDay(), the role
InitPrice ==
  /\ db = InitDb(TRUE)
  /\ req = [r \in Reqs |-> Idle]
  /\ holders = {}
  /\ issued = 0
  /\ initial = db
  /\ \E price \in 0..MaxPrice, day \in Days, hasRole \in BOOLEAN :
       quote = [NoQuote EXCEPT !.price = price, !.day = day, !.hasRole = hasRole]
  /\ SideIdle

\* lines 427-439 applied to the inputs
Quote ==
  /\ ~quote.computed
  /\ quote' = [quote EXCEPT
       !.computed = TRUE,
       !.discountedPrice =
          DiscountedPrice(quote.price,
                          WithRoleDiscount(DayDiscount(quote.day), quote.hasRole))]
  /\ UNCHANGED <<db, req, holders, issued, initial, side>>

NextPrice == Quote

SpecPrice == InitPrice /\ [][NextPrice]_vars

\* ------------------------------------------------------------ properties
\* request r takes a step that leaves position a
Leaves(r, a) == req[r].pc = a /\ req'[r].pc # a

\* request r gets the success response in this step
Succeeds(r) == req[r].pc = "commit" /\ req'[r].pc = "done" /\ req'[r].status = 200

RECURSIVE SumQuantity(_, _)
SumQuantity(lines, itemId) ==
  IF lines = <<>> THEN 0
  ELSE (IF Head(lines).itemId = itemId THEN Head(lines).quantity ELSE 0)
       + SumQuantity(Tail(lines), itemId)

RECURSIVE Owned(_, _, _)
\* the quantity of item itemId that the Inventory documents of userId hold
Owned(docs, userId, itemId) ==
  IF docs = <<>> THEN 0
  ELSE (IF Head(docs).userId = userId THEN SumQuantity(Head(docs).items, itemId) ELSE 0)
       + Owned(Tail(docs), userId, itemId)

RECURSIVE CountLines(_, _, _)
\* the number of inventory lines of userId for itemId, over all documents
CountLines(docs, userId, itemId) ==
  IF docs = <<>> THEN 0
  ELSE (IF Head(docs).userId = userId
        THEN Cardinality({k \in 1..Len(Head(docs).items) :
                            Head(docs).items[k].itemId = itemId})
        ELSE 0)
       + CountLines(Tail(docs), userId, itemId)

\* C1: the committed stars, stock and inventories change only in the step in
\* which a request commits and gets the success response; every step of a
\* request that ends otherwise (404, 400, 500, no response) leaves them as
\* they were, whatever the request had staged.
C1_FailedPurchaseChangesNothing ==
  [][/\ db' # db => \E r \in Reqs : Succeeds(r)
     /\ \A r \in Reqs :
          (req[r].pc # "done" /\ req'[r].pc = "done" /\ req'[r].status # 200)
            => (db' = db /\ req'[r].txn # "committed")]_vars

\* a request that had staged the debit and the stock decrement ended with 500
\* and the documents are those of the start
C1_Witness ==
  \E r \in Reqs :
    /\ req[r].pc = "done" /\ req[r].status = 500
    /\ req[r].written.stars /\ req[r].written.stock
    /\ db = initial

\* C2: a successful purchase of quantity q debits exactly discountedPrice * q,
\* lowers a finite stock by q and leaves an unlimited one at -1, raises the
\* buyer's quantity of the item by q (one line), and changes nothing else.
C2_SuccessfulPurchaseEffect ==
  [][\A r \in Reqs : Succeeds(r) =>
       LET u == req[r].user.userId
           i == req[r].item.id
           q == req[r].body.quantity
       IN /\ q >= 1
          /\ db'.CommandStats[u].stars
               = db.CommandStats[u].stars - req[r].discountedPrice * q
          /\ \A o \in Users \ {u} : db'.CommandStats[o] = db.CommandStats[o]
          /\ db'.Item[i].stock
               = IF db.Item[i].stock = -1 THEN -1 ELSE db.Item[i].stock - q
          /\ db'.Item[i].price = db.Item[i].price
          /\ \A j \in Items \ {i} : db'.Item[j] = db.Item[j]
          /\ Owned(db'.Inventory, u, i) = Owned(db.Inventory, u, i) + q
          /\ CountLines(db'.Inventory, u, i) = 1
          /\ \A o \in Users, j \in Items :
               <<o, j>> # <<u, i>> =>
                 /\ Owned(db'.Inventory, o, j) = Owned(db.Inventory, o, j)
                 /\ CountLines(db'.Inventory, o, j) = CountLines(db.Inventory, o, j)
          /\ Len(db'.Inventory) = Len(db.Inventory)]_vars

\* u1 has bought both units of the finite item: a new line of quantity 2,
\* stock 0, and 150 stars less
C2_Witness ==
  /\ \E r \in Reqs : req[r].pc = "done" /\ req[r].status = 200
  /\ Owned(db.Inventory, "u1", "i1") = 2
  /\ db.Item["i1"].stock = initial.Item["i1"].stock - 2
  /\ db.CommandStats["u1"].stars < initial.CommandStats["u1"].stars
  /\ Owned(db.Inventory, "u1", "i2") > Owned(initial.Inventory, "u1", "i2")
  /\ db.Item["i2"].stock = -1

\* C3: no committed stars balance is negative.
C3_StarsNeverNegative ==
  \A u \in Users : db.CommandStats[u].stars >= 0

\* one request of a user has committed a purchase that spent the whole
\* balance while another request of the same user, which read the old
\* balance, is about to save its own debit
C3_Witness ==
  \E r \in Reqs, o \in Reqs :
    /\ r # o
    /\ req[r].pc = "done" /\ req[r].status = 200
    /\ req[o].pc = "saveUser"
    /\ <<"stars", req[o].user.userId>> \in req[o].stale
    /\ db.CommandStats[req[o].user.userId].stars = 0

\* C4: a finite stock never goes below 0 and the quantity sold of the item
\* never exceeds the stock it started with.
Sold(itemId) ==
  LET total(docs) == Owned(docs, "u1", itemId) + Owned(docs, "u2", itemId)
  IN total(db.Inventory) - total(initial.Inventory)

C4_StockNeverOversold ==
  \A i \in Items :
    initial.Item[i].stock # -1 =>
      /\ db.Item[i].stock >= 0
      /\ Sold(i) <= initial.Item[i].stock
      /\ db.Item[i].stock = initial.Item[i].stock - Sold(i)

\* one user has bought the last units while a request of the other user, which
\* read the old stock and passed the stock check, is about to save its decrement
C4_Witness ==
  \E r \in Reqs, o \in Reqs :
    /\ r # o
    /\ req[r].pc = "done" /\ req[r].status = 200
    /\ req[o].pc = "saveItem"
    /\ <<"stock", "i1">> \in req[o].stale
    /\ <<"stars", req[o].user.userId>> \notin req[o].stale
    /\ db.Item["i1"].stock = 0


\* C5: the unit price is price * (1 - d/100) rounded to the nearest integer,
\* halves up, where d is 5 on Saturday or Sunday plus 20 with the discount
\* role: the percentages are added and the rounding is applied once.
C5_DiscountAddedThenRoundedOnce ==
  quote.computed =>
    LET d == (IF quote.day = 6 \/ quote.day = 0 THEN 5 ELSE 0)
             + (IF quote.hasRole THEN 20 ELSE 0)
        exact == quote.price * (100 - d)      \* a hundred times the exact price
        p == quote.discountedPrice
    IN /\ 100 * p - 50 <= exact
       /\ exact < 100 * p + 50
       /\ (quote.price = 100 /\ d = 25) => p = 75
       /\ (quote.price = 100 /\ d = 0) => p = 100
       /\ (quote.price = 33 /\ d = 5) => p = 31

\* price 33 on a Saturday without the role was quoted at 31
C5_Witness ==
  /\ quote.computed
  /\ quote.price = 33 /\ quote.day = 6 /\ ~quote.hasRole
  /\ quote.discountedPrice = 31

\* C6: a purchase by a user without an Inventory document that has passed the
\* stock and funds checks gets its inventory saved (one new document with
\* the one line bought) unless the database itself rejects the save, and
\* after the commit the user has exactly one Inventory document.
C6_FirstPurchaseCreatesInventory ==
  [][\A r \in Reqs :
       /\ (/\ Leaves(r, "saveInventory")
           /\ FindInventoryIndex(req[r].snapshot, req[r].body.userId) = 0
           /\ ~(req'[r].pc = "catch" /\ req'[r].thrown = "DatabaseError"))
            => /\ req'[r].pc = "commit"
               /\ req'[r].inventoryIndex = 0
               /\ req'[r].inventory.userId = req[r].body.userId
               /\ Len(req'[r].inventory.items) = 1
               /\ req'[r].inventory.items[1].itemId = req[r].item.id
               /\ req'[r].inventory.items[1].quantity = req[r].body.quantity
       /\ (Succeeds(r) /\ req[r].inventoryIndex = 0)
            => Cardinality({k \in 1..Len(db'.Inventory) :
                              db'.Inventory[k].userId = req[r].user.userId}) = 1]_vars

\* C7: in the committed inventories every user has at most one line per item
\* and every line has quantity at least 1.
C7_OneLinePerItem ==
  /\ \A u \in Users, i \in Items : CountLines(db.Inventory, u, i) <= 1
  /\ \A k \in 1..Len(db.Inventory) :
       \A j \in 1..Len(db.Inventory[k].items) : db.Inventory[k].items[j].quantity >= 1

\* a purchase has raised u1's existing line while another request of u1, which
\* read the inventory before that commit, is about to save its own upsert
C7_Witness ==
  \E r \in Reqs, o \in Reqs :
    /\ r # o
    /\ req[r].pc = "done" /\ req[r].status = 200
    /\ req[o].pc = "saveInventory" /\ req[o].body.userId = "u1"
    /\ <<"inventory", 1>> \in req[o].stale
    /\ Owned(db.Inventory, "u1", "i2") > Owned(initial.Inventory, "u1", "i2")
    /\ CountLines(db.Inventory, "u1", "i2") = 1

\* two interleaved first purchases of one user, each of which found no
\* Inventory document (reached; both end in the catch block)
InterleavedFirstPurchases ==
  \E r \in Reqs, o \in Reqs :
    /\ r # o
    /\ req[r].pc = "catch" /\ req[r].thrown = "ValidationError"
    /\ req[o].pc = "catch" /\ req[o].thrown = "ValidationError"
    /\ req[r].user.userId = req[o].user.userId

\* C8: when the item found has a finite stock below the requested quantity the
\* request is answered 400 "insufficient stock" and no document changes (or
\* the lookup itself was rejected); an item of stock -1 never gets that answer,
\* nor does one whose stock covers the quantity.
C8_InsufficientStock ==
  [][\A r \in Reqs : Leaves(r, "findItem") =>
       \A i \in Items :
         req[r].snapshot.Item[i].name = req[r].body.itemName =>
           LET stock == req[r].snapshot.Item[i].stock
               refused == /\ req'[r].pc = "done"
                          /\ req'[r].status = 400
                          /\ req'[r].error = "InsufficientStock"
           IN /\ (stock # -1 /\ stock < req[r].body.quantity)
                   => /\ db' = db
                      /\ \/ refused
                         \/ req'[r].pc = "catch" /\ req'[r].thrown = "DatabaseError"
              /\ (stock = -1 \/ stock >= req[r].body.quantity) => ~refused]_vars

\* a request for one unit of the sold-out item was refused
C8_Witness ==
  \E r \in Reqs :
    /\ req[r].pc = "done" /\ req[r].error = "InsufficientStock"
    /\ req[r].status = 400
    /\ req[r].body.quantity = 1
    /\ db.Item["i1"].stock = 0

\* C9: the request is refused for funds (400, no document changes) exactly
\* when the balance read is below discountedPrice * quantity; with a balance
\* equal to it the debit goes on and the committed balance is 0.
C9_InsufficientFunds ==
  [][\A r \in Reqs :
       LET stars == req[r].user.stars
           total == req'[r].discountedPrice * req[r].body.quantity
       IN /\ (Leaves(r, "findItem") /\ req'[r].error = "InsufficientFunds")
               => /\ stars < total
                  /\ req'[r].pc = "done" /\ req'[r].status = 400
                  /\ db' = db
          /\ (Leaves(r, "findItem") /\ req'[r].pc = "saveUser")
               => /\ stars >= total
                  /\ req'[r].user.stars = stars - total
          /\ (Succeeds(r) /\ stars = 0 /\ req[r].written.stars)
               => db'.CommandStats[req[r].user.userId].stars = 0]_vars

\* u2 has spent exactly its 100 stars on one unit at the full price
C9_Witness ==
  /\ \E r \in Reqs : req[r].pc = "done" /\ req[r].status = 200
  /\ db.CommandStats["u2"].stars = 0
  /\ initial.CommandStats["u2"].stars = 100
  /\ Owned(db.Inventory, "u2", "i1") = 1

\* C10: the checks are made in the order user, item, stock, funds and the
\* first that fails is the one answered, with no document changed.
C10_CheckOrder ==
  [][\A r \in Reqs :
       LET b == req[r].body
           userKnown == \E u \in Users : /\ db.CommandStats[u].uuid = b.uuid
                                         /\ db.CommandStats[u].userId = b.userId
           named == {i \in Items : req[r].snapshot.Item[i].name = b.itemName}
           lookupRejected == req'[r].pc = "catch" /\ req'[r].thrown = "DatabaseError"
           answered(s, e) == /\ req'[r].pc = "done" /\ req'[r].status = s
                             /\ req'[r].error = e /\ db' = db
       IN /\ (Leaves(r, "findUser") /\ ~userKnown)
               => (answered(404, "UserNotFound") \/ lookupRejected)
          /\ (Leaves(r, "findUser") /\ userKnown)
               => (req'[r].pc = "findItem" \/ lookupRejected)
          /\ (Leaves(r, "findItem") /\ named = {})
               => (answered(404, "ItemNotFound") \/ lookupRejected)
          /\ (Leaves(r, "findItem") /\ named # {})
               => \A i \in named :
                    LET short == /\ req[r].snapshot.Item[i].stock # -1
                                 /\ req[r].snapshot.Item[i].stock < b.quantity
                    IN /\ short => (answered(400, "InsufficientStock") \/ lookupRejected)
                       /\ req'[r].error = "InsufficientFunds" => ~short
          /\ (req'[r].status \in {400, 404} /\ req[r].status = 0) => db' = db]_vars

\* a request with a mismatched (uuid, userId) pair and an unknown item name
\* was answered 404 "user not found"
C10_Witness ==
  \E r \in Reqs :
    /\ req[r].pc = "done" /\ req[r].status = 404 /\ req[r].error = "UserNotFound"
    /\ req[r].body.itemName = "nx"
    /\ req[r].body.uuid # UuidOf(req[r].body.userId)


\* C18: the committed documents, which are what a concurrent read sees,
\* never change in part: a step that changes any of them debits one user,
\* adds that many units of one item to that user's inventory as the debit
\* pays for, and lowers a finite stock of that item by the same units; the
\* debit, the decrement and the inventory update never appear one by one.
C18_NoPartialPurchaseVisible ==
  [][db' # db =>
       \E u \in Users, i \in Items :
         LET units == Owned(db'.Inventory, u, i) - Owned(db.Inventory, u, i)
             spent == db.CommandStats[u].stars - db'.CommandStats[u].stars
             full == units * db.Item[i].price
         IN /\ units >= 1
            /\ db'.Inventory # db.Inventory
            /\ spent <= full
            /\ 100 * spent >= 75 * full - 50 * units
            /\ db.Item[i].price > 0 => db'.CommandStats[u].stars < db.CommandStats[u].stars
            /\ db'.Item[i].stock
                 = IF db.Item[i].stock = -1 THEN -1 ELSE db.Item[i].stock - units
            /\ \A o \in Users \ {u} : db'.CommandStats[o] = db.CommandStats[o]
            /\ \A j \in Items \ {i} : db'.Item[j] = db.Item[j]]_vars

\* one purchase of the finite item is committed and visible in full while
\* another request has staged its debit and its stock decrement, unseen
C18_Witness ==
  \E r \in Reqs, o \in Reqs :
    /\ r # o
    /\ req[r].pc = "done" /\ req[r].status = 200
    /\ db.Item["i1"].stock = initial.Item["i1"].stock - 1
    /\ req[o].pc = "commit" /\ req[o].written.stars /\ req[o].written.stock
    /\ req[o].item.stock = 0

\* C19: a request that has been answered has its transaction committed (the
\* answer is 200) or aborted (404, 400 or 500), never left open, and a
\* request whose handler has returned has ended its session and holds no
\* open transaction; a request still in its handler has not ended the session.
C19_TransactionReleasedBeforeResponse ==
  \A r \in Reqs :
    /\ req[r].status # 0 =>
         /\ req[r].txn \in {"committed", "aborted"}
         /\ req[r].status = 200 <=> req[r].txn = "committed"
         /\ req[r].status \in {404, 400, 500} <=> req[r].txn = "aborted"
    /\ req[r].pc = "done" => (req[r].sessionEnded /\ ~Active(r))
    /\ req[r].txn = "committed" => req[r].status = 200
    /\ req[r].pc \in {"findUser", "findItem", "saveUser", "saveItem", "saveInventory", "commit"}
         => (Active(r) /\ ~req[r].sessionEnded /\ req[r].status = 0)

\* one request was answered 200 with its transaction committed and another
\* was answered 400 after the abort; both handlers have returned
C19_Witness ==
  \E r \in Reqs, o \in Reqs :
    /\ req[r].pc = "done" /\ req[r].status = 200 /\ req[r].txn = "committed"
    /\ req[o].pc = "done" /\ req[o].status = 400 /\ req[o].txn = "aborted"
    /\ req[r].sessionEnded /\ req[o].sessionEnded

\* ------------------------------------------------ GET /profile/:uuid ranks
\* variant: records with an equal value are counted too
CountGreaterOrEqual(stats, metric, value) ==
  Cardinality({m \in Members : stats[m][metric] >= value})

\* CommandStats.countDocuments({ metric: { $gt: value } })
CountGreater(stats, metric, value) ==
  Cardinality({m \in Members : stats[m][metric] > value})

\* lines 254-257: the four ranks of the record userStats
Ranks(stats, userStats) ==
  [userRankAllTime |-> CountGreater(stats, "totalMessages", userStats["totalMessages"]) + 1,
   userRankToday |-> CountGreater(stats, "messagesToday", userStats["messagesToday"]) + 1,
   userRankLast7Days |->
     CountGreater(stats, "messagesLast7Days", userStats["messagesLast7Days"]) + 1,
   userRankLast30Days |->
     CountGreater(stats, "messagesLast30Days", userStats["messagesLast30Days"]) + 1]

othersRank == <<shop, ach, prof, logins, counter, board, cli, guild, view, tab>>

InitRank ==
  /\ ShopIdle
  /\ tab = Off
  /\ view = Off
  /\ guild = Off
  /\ cli = Off
  /\ board = Off
  /\ counter = Off
  /\ logins = Off
  /\ prof = Off
  /\ ach = Off
  /\ \E stats \in [Members -> Counters] :
       rank = [NoRank EXCEPT !.stats = stats]

\* GET /profile/:uuid computes the ranks of member m (no cached profile)
ProfileRanks(m) ==
  /\ rank.answer[m] = NoRanks
  /\ rank' = [rank EXCEPT !.answer[m] = Ranks(rank.stats, rank.stats[m])]
  /\ UNCHANGED othersRank

NextRank == \E m \in Members : ProfileRanks(m)

SpecRank == InitRank /\ [][NextRank]_vars

\* the field of the answer that carries the rank of a metric
RankField(metric) ==
  CASE metric = "totalMessages" -> "userRankAllTime"
    [] metric = "messagesToday" -> "userRankToday"
    [] metric = "messagesLast7Days" -> "userRankLast7Days"
    [] metric = "messagesLast30Days" -> "userRankLast30Days"

\* C11: for each of the four metrics the rank answered for a member is 1 plus
\* the number of records with a strictly greater value; members with equal
\* values get equal ranks, a greater value gets a smaller rank, and the ranks
\* after a tie are skipped.
C11_RankCountsStrictlyGreater ==
  \A m \in Members : rank.answer[m] # NoRanks =>
    \A k \in Metrics :
      LET mine == rank.stats[m][k]
          r == rank.answer[m][RankField(k)]
      IN /\ r = 1 + Cardinality({o \in Members : rank.stats[o][k] > mine})
         /\ \A o \in Members : rank.answer[o] # NoRanks =>
              LET his == rank.answer[o][RankField(k)] IN
              /\ rank.stats[o][k] = mine => his = r
              /\ rank.stats[o][k] > mine => his < r
              /\ rank.stats[o][k] < mine =>
                   his >= r + Cardinality({x \in Members : rank.stats[x][k] = mine})

\* two members tie on totalMessages above the third: ranks 1, 1 and 3
C11_Witness ==
  /\ rank.stats["m1"]["totalMessages"] = rank.stats["m2"]["totalMessages"]
  /\ rank.stats["m3"]["totalMessages"] < rank.stats["m1"]["totalMessages"]
  /\ rank.answer["m1"].userRankAllTime = 1
  /\ rank.answer["m2"].userRankAllTime = 1
  /\ rank.answer["m3"].userRankAllTime = 3

\* ------------------------------------------------ the achievement evaluator
\* userStats.achievements.some(a => a.name === name && a.completed)
SomeCompleted(userStats, name) ==
  \E a \in userStats.achievements : a[1] = name /\ a[2]

\* the catalog of GET /profile/:uuid
ProfileCatalog ==
  << [name |-> "message_master", target |-> MessageTarget],
     [name |-> "voice_champion", target |-> NoTarget],
     [name |-> "lovebird", target |-> NoTarget],
     [name |-> "voice_time_10s", target |-> VoiceTarget] >>

\* variant: progress at or above the target completes the achievement
ProfileEntryAutoComplete(userStats, achievement) ==
  LET progress ==
        IF achievement.name = "message_master" THEN userStats.messagesToday
        ELSE IF achievement.name = "voice_time_10s" THEN userStats.voiceTime \div 1000
        ELSE 0
  IN [name |-> achievement.name, target |-> achievement.target,
      progress |-> progress,
      completed |-> \/ SomeCompleted(userStats, achievement.name)
                    \/ (achievement.target # NoTarget /\ progress >= achievement.target)]

\* lines 267-286: the entry of one catalog definition
ProfileEntry(userStats, achievement) ==
  LET progress ==
        IF achievement.name = "message_master" THEN userStats.messagesToday
        ELSE IF achievement.name = "voice_time_10s" THEN userStats.voiceTime \div 1000
        ELSE 0
  IN [name |-> achievement.name, target |-> achievement.target,
      progress |-> progress,
      completed |-> SomeCompleted(userStats, achievement.name)]

ProfileAchievements(userStats) ==
  [i \in 1..Len(ProfileCatalog) |-> ProfileEntry(userStats, ProfileCatalog[i])]

\* the catalog of GET /achievements/:uuid
AchievementCatalog ==
  << [name |-> "message_master", target |-> MessageTarget],
     [name |-> "voice_champion", target |-> NoTarget],
     [name |-> "lovebird", target |-> NoTarget],
     [name |-> "voice_time_10s", target |-> VoiceTarget] >>

\* variant: the voice progress is left in milliseconds
AchievementEntryMillis(userStats, achievement) ==
  LET progress ==
        IF achievement.name = "message_master" THEN userStats.messagesToday
        ELSE IF achievement.name = "voice_time_10s" THEN userStats.voiceTime
        ELSE 0
  IN [name |-> achievement.name, target |-> achievement.target,
      progress |-> progress,
      completed |-> SomeCompleted(userStats, achievement.name)]

\* lines 345-364: the entry of one catalog definition
AchievementEntry(userStats, achievement) ==
  LET progress ==
        IF achievement.name = "message_master" THEN userStats.messagesToday
        ELSE IF achievement.name = "voice_time_10s" THEN userStats.voiceTime \div 1000
        ELSE 0
  IN [name |-> achievement.name, target |-> achievement.target,
      progress |-> progress,
      completed |-> SomeCompleted(userStats, achievement.name)]

UserAchievements(userStats) ==
  [i \in 1..Len(AchievementCatalog) |-> AchievementEntry(userStats, AchievementCatalog[i])]

othersAch == <<shop, rank, prof, logins, counter, board, cli, guild, view, tab>>

InitAch ==
  /\ ShopIdle
  /\ tab = Off
  /\ view = Off
  /\ guild = Off
  /\ cli = Off
  /\ board = Off
  /\ counter = Off
  /\ logins = Off
  /\ prof = Off
  /\ rank = Off
  /\ \E messagesToday \in MessageInputs, voiceTime \in VoiceInputs,
        achievements \in SUBSET PersistedRecords :
       ach = [NoAch EXCEPT !.userStats = [messagesToday |-> messagesToday,
                                          voiceTime |-> voiceTime,
                                          achievements |-> achievements]]

\* GET /profile/:uuid evaluates the achievements of the record
GetProfileAchievements ==
  /\ ach.profile = <<>>
  /\ ach' = [ach EXCEPT !.profile = ProfileAchievements(ach.userStats)]
  /\ UNCHANGED othersAch

\* GET /achievements/:uuid evaluates the achievements of the record
GetAchievements ==
  /\ ach.list = <<>>
  /\ ach' = [ach EXCEPT !.list = UserAchievements(ach.userStats)]
  /\ UNCHANGED othersAch

NextAch == GetProfileAchievements \/ GetAchievements

SpecAch == InitAch /\ [][NextAch]_vars

\* the achievement results answered so far
AchResults == {res \in {ach.profile, ach.list} : res # <<>>}

\* C12: an achievement result has one entry per catalog definition in the
\* order message_master, voice_champion, lovebird, voice_time_10s; progress
\* is messagesToday for message_master, the whole seconds of voiceTime for
\* voice_time_10s and 0 for the other two; an entry is completed exactly when
\* a persisted record of that name is completed, whatever the progress.
C12_AchievementResult ==
  \A res \in AchResults :
    /\ Len(res) = 4
    /\ <<res[1].name, res[2].name, res[3].name, res[4].name>>
         = <<"message_master", "voice_champion", "lovebird", "voice_time_10s">>
    /\ res[1].progress = ach.userStats.messagesToday
    /\ res[2].progress = 0
    /\ res[3].progress = 0
    /\ res[4].progress * 1000 <= ach.userStats.voiceTime
    /\ ach.userStats.voiceTime < (res[4].progress + 1) * 1000
    /\ \A i \in 1..4 :
         res[i].completed <=> (<<res[i].name, TRUE>> \in ach.userStats.achievements)

\* both endpoints answered a record whose messagesToday reached the target
\* and whose voiceTime is 5000 ms, with no completed record of message_master
C12_Witness ==
  /\ ach.profile # <<>>
  /\ ach.list # <<>>
  /\ ach.userStats.messagesToday >= MessageTarget
  /\ ach.userStats.voiceTime = 5000
  /\ <<"message_master", TRUE>> \notin ach.userStats.achievements
  /\ <<"message_master", FALSE>> \in ach.userStats.achievements
  /\ ach.profile[1].completed = FALSE
  /\ ach.list[4].progress = 5

\* ------------------------------------------- GET /profile/:uuid and its cache
\* cache.get: an entry is served until its expiry time has passed
CacheGet(entry, now) ==
  IF entry.set /\ entry.t >= now THEN entry.body ELSE <<>>

\* the requests whose cache.set opened a window that is still open at `now`
OpenWindows(now) ==
  {p \in ProfileReqs : prof.reqs[p].stored /\ now < prof.reqs[p].setAt + ProfileTtl}

othersProf == <<shop, rank, ach, logins, counter, board, cli, guild, view, tab>>

InitProfile ==
  /\ ShopIdle
  /\ tab = Off
  /\ view = Off
  /\ guild = Off
  /\ cli = Off
  /\ board = Off
  /\ counter = Off
  /\ logins = Off
  /\ rank = Off
  /\ ach = Off
  /\ prof = NoProf

\* time passes
ProfileTick ==
  /\ prof.now < MaxTicks * (ProfileTtl \div 2)
  /\ prof' = [prof EXCEPT !.now = @ + ProfileTtl \div 2]
  /\ UNCHANGED othersProf

\* a stats update, a login or a purchase changes the stored record of the user
RecordChanges ==
  /\ prof.version < MaxVersion
  /\ prof' = [prof EXCEPT !.version = @ + 1]
  /\ UNCHANGED othersProf

\* lines 231-237: the request arrives; a cached profile is answered at once
ProfileGet(p) ==
  /\ prof.reqs[p].pc = "idle"
  /\ \A o \in ProfileReqs : o < p => prof.reqs[o].pc # "idle"
  /\ LET cachedProfile == CacheGet(prof.entry, prof.now)
         arrived == [prof.reqs[p] EXCEPT !.window = OpenWindows(prof.now)]
     IN prof' = [prof EXCEPT !.reqs[p] =
                   IF cachedProfile # <<>>
                     THEN [arrived EXCEPT !.pc = "done", !.status = 200,
                                         !.body = cachedProfile]
                     ELSE [arrived EXCEPT !.pc = "findOne"]]
  /\ UNCHANGED othersProf

\* line 239: CommandStats.findOne({ uuid }), the uuid is known
ProfileFindOne(p) ==
  /\ prof.reqs[p].pc = "findOne"
  /\ prof' = [prof EXCEPT !.reqs[p].pc = "fetchMember",
                          !.reqs[p].userStats = <<prof.version>>]
  /\ UNCHANGED othersProf

\* lines 247-250: fetchUserGuildMember; a failed platform call answers 500
ProfileFetchMember(p) ==
  /\ prof.reqs[p].pc = "fetchMember"
  /\ \/ prof' = [prof EXCEPT !.member = TRUE, !.reqs[p].pc = "respond"]
     \/ /\ ~prof.member
        /\ prof' = [prof EXCEPT !.reqs[p].pc = "done", !.reqs[p].status = 500]
  /\ UNCHANGED othersProf

\* lines 254-300: ranks and achievements, cache.set and the answer
ProfileRespond(p) ==
  /\ prof.reqs[p].pc = "respond"
  /\ LET profileData == prof.reqs[p].userStats
     IN prof' = [prof EXCEPT
                   !.entry = [set |-> TRUE, body |-> profileData,
                              t |-> prof.now + ProfileTtl],
                   !.reqs[p].pc = "done", !.reqs[p].status = 200,
                   !.reqs[p].body = profileData,
                   !.reqs[p].stored = TRUE, !.reqs[p].setAt = prof.now]
  /\ UNCHANGED othersProf

NextProfile ==
  \/ ProfileTick
  \/ RecordChanges
  \/ \E p \in ProfileReqs :
       \/ ProfileGet(p)
       \/ ProfileFindOne(p)
       \/ ProfileFetchMember(p)
       \/ ProfileRespond(p)

SpecProfile == InitProfile /\ [][NextProfile]_vars

\* C13: a profile request answered 200 that was issued within the 300 s after
\* another request cached and answered a profile gets the same body as that
\* request, whatever changed in the stored record in between.
C13_RepeatWithinWindowIdentical ==
  \A q \in ProfileReqs :
    (prof.reqs[q].pc = "done" /\ prof.reqs[q].status = 200) =>
      \A p \in prof.reqs[q].window : prof.reqs[q].body = prof.reqs[p].body

\* --------------------------------------- the DiscordStrategy verify callback
\* lines 161-169: the dates of the allowed roles the member holds, all `now`
RoleAcquisitionDates(userRolesIds, now) ==
  [role \in AllowedRoles |-> IF role \in userRolesIds THEN now ELSE 0]

\* line 173: updateOne(filter, user, { upsert: true }) sets every field of user
UpdateOne(stored, user) ==
  [stored EXCEPT !.stars = user.stars,
                 !.roleAcquisitionDates = user.roleAcquisitionDates]

othersLogins == <<shop, rank, ach, prof, counter, board, cli, guild, view, tab>>

\* the record of the user exists; the roles held in the guild are any
InitLogin ==
  /\ ShopIdle
  /\ tab = Off
  /\ view = Off
  /\ guild = Off
  /\ cli = Off
  /\ board = Off
  /\ counter = Off
  /\ rank = Off
  /\ ach = Off
  /\ prof = Off
  /\ \E roles \in SUBSET GuildRoles : logins = [NoLogin EXCEPT !.roles = roles]

\* time passes
LoginTick ==
  /\ logins.now < MaxLoginTime
  /\ logins' = [logins EXCEPT !.now = @ + 1]
  /\ UNCHANGED othersLogins

\* a POST /buy of the user commits: lines 447-448 and the commit
PurchaseCommits ==
  /\ logins.stored
  /\ logins.purchases < MaxPurchases
  /\ \E cost \in PurchaseCosts :
       /\ logins.user.stars >= cost
       /\ logins' = [logins EXCEPT !.user.stars = @ - cost, !.purchases = @ + 1]
  /\ UNCHANGED othersLogins

\* lines 138-153: findOne(...).lean() reads the record into `user`; when there
\* is none, `user` is a new document that is not saved yet
LoginFindOne(l) ==
  /\ logins.procs[l].pc = "idle"
  /\ \A o \in LoginReqs : o < l => logins.procs[o].pc # "idle"
  /\ logins' = [logins EXCEPT !.procs[l].pc = "fetchMember",
                            !.procs[l].user = IF logins.stored THEN logins.user
                                              ELSE NewCommandStats]
  /\ UNCHANGED othersLogins

\* lines 155-172: fetchUserGuildMember (cached per user once fetched); a failed
\* fetch ends the login with an error, otherwise the dates are rebuilt
LoginFetchMember(l) ==
  /\ logins.procs[l].pc = "fetchMember"
  /\ \/ LET userRolesIds == IF logins.member # <<>> THEN logins.member[1] ELSE logins.roles
        IN logins' = [logins EXCEPT
                       !.member = <<userRolesIds>>,
                       !.procs[l].pc = "updateOne",
                       !.procs[l].user.roleAcquisitionDates =
                          RoleAcquisitionDates(userRolesIds, logins.now)]
     \/ /\ logins.member = <<>>
        /\ logins' = [logins EXCEPT !.procs[l].pc = "done", !.procs[l].error = TRUE]
  /\ UNCHANGED othersLogins

\* lines 173-176: the record is written back (upsert) and the login completes
LoginUpdateOne(l) ==
  /\ logins.procs[l].pc = "updateOne"
  /\ logins' = [logins EXCEPT !.user = UpdateOne(logins.user, logins.procs[l].user),
                            !.stored = TRUE,
                            !.procs[l].pc = "done"]
  /\ UNCHANGED othersLogins

NextLogin ==
  \/ LoginTick
  \/ PurchaseCommits
  \/ \E l \in LoginReqs :
       \/ LoginFindOne(l)
       \/ LoginFetchMember(l)
       \/ LoginUpdateOne(l)

SpecLogin == InitLogin /\ [][NextLogin]_vars

\* C14: once a date is recorded for an allowed role, no step of a login
\* changes or removes it.
C14_FirstSeenDateKept ==
  [][\A role \in AllowedRoles :
       logins.user.roleAcquisitionDates[role] # 0 =>
         logins'.user.roleAcquisitionDates[role] = logins.user.roleAcquisitionDates[role]]_vars

\* C15: the stars of the stored record change only in the step in which a
\* purchase commits; no step of a login changes them.
C15_StarsChangedOnlyByPurchase ==
  [][logins'.user.stars # logins.user.stars => logins'.purchases = logins.purchases + 1]_vars

\* ------------------------------------------------------------------ GET /
\* the count Counter.findOne() would read: that of the first document
StoredCount(docs) == IF docs = <<>> THEN 0 ELSE docs[1]

\* counter.save(): a new document is inserted, a found one gets its count set
SaveCounter(docs, isNew, count) ==
  IF isNew THEN Append(docs, count) ELSE [docs EXCEPT ![1] = count]

othersCounter == <<shop, rank, ach, prof, logins, board, cli, guild, view, tab>>

InitCounter ==
  /\ ShopIdle
  /\ tab = Off
  /\ view = Off
  /\ guild = Off
  /\ cli = Off
  /\ board = Off
  /\ rank = Off
  /\ ach = Off
  /\ prof = Off
  /\ logins = Off
  /\ \E docs \in {<<>>} \cup {<<n>> : n \in 0..MaxStartCount} :
       counter = [NoCounter EXCEPT !.docs = docs, !.start = StoredCount(docs)]

\* lines 511-517: findOne, a new Counter when there is none, count++
HitFindOne(h) ==
  /\ counter.procs[h].pc = "idle"
  /\ \A o \in HitReqs : o < h => counter.procs[o].pc # "idle"
  /\ counter' = [counter EXCEPT
                   !.procs[h].pc = "save",
                   !.procs[h].isNew = (counter.docs = <<>>),
                   !.procs[h].count = StoredCount(counter.docs) + 1]
  /\ UNCHANGED othersCounter

\* line 519: counter.save() completes
HitSave(h) ==
  /\ counter.procs[h].pc = "save"
  /\ counter' = [counter EXCEPT
                   !.docs = SaveCounter(@, counter.procs[h].isNew, counter.procs[h].count),
                   !.saved = @ + 1,
                   !.procs[h].pc = "done"]
  /\ UNCHANGED othersCounter

\* lines 521-524: findOne or save rejects and the request is answered 500
HitFails(h) ==
  /\ counter.procs[h].pc \in {"idle", "save"}
  /\ \A o \in HitReqs : o < h => counter.procs[o].pc # "idle"
  /\ counter' = [counter EXCEPT !.procs[h].pc = "done", !.procs[h].status = 500]
  /\ UNCHANGED othersCounter

NextCounter ==
  \E h \in HitReqs :
    \/ HitFindOne(h)
    \/ HitSave(h)
    \/ HitFails(h)

SpecCounter == InitCounter /\ [][NextCounter]_vars

\* C16: the stored count never decreases, and once n requests have completed
\* their save it is exactly n above the count stored at the start (0 when
\* there was no Counter document), however the requests interleave.
C16_CounterCountsEveryHit ==
  /\ [](StoredCount(counter.docs) = counter.start + counter.saved)
  /\ [][StoredCount(counter'.docs) >= StoredCount(counter.docs)]_vars

\* ------------------------------------------------------- GET /leaderboard
Max(a, b) == IF a >= b THEN a ELSE b

\* variant: an entry aged exactly the cache lifetime still counts as fresh
FreshInclusive(cachedData, now) ==
  cachedData # <<>> /\ now - cachedData[2] <= LeaderboardTtlMs

\* line 194: cachedData && Date.now() - cachedData.timestamp < TTL * 1000
Fresh(cachedData, now) ==
  cachedData # <<>> /\ now - cachedData[2] < LeaderboardTtlMs

\* line 197: Math.max(0, TTL * 1000 - (Date.now() - cachedData.timestamp))
NextUpdateIn(cachedData, now) ==
  Max(0, LeaderboardTtlMs - (now - cachedData[2]))

\* a request is between the two clock reads of the cache-hit branch, which
\* run without yielding to any other handler
InHitBranch == \E b \in BoardReqs : board.reqs[b].pc = "hit"

othersBoard == <<shop, rank, ach, prof, logins, counter, cli, guild, view, tab>>

InitBoard ==
  /\ ShopIdle
  /\ tab = Off
  /\ view = Off
  /\ guild = Off
  /\ cli = Off
  /\ rank = Off
  /\ ach = Off
  /\ prof = Off
  /\ logins = Off
  /\ counter = Off
  /\ board = NoBoard

\* time passes; within the cache-hit branch only a millisecond at a time
BoardTick(d) ==
  /\ board.ticks < MaxBoardTicks
  /\ InHitBranch => d = 1
  /\ board' = [board EXCEPT !.now = @ + d, !.ticks = @ + 1]
  /\ UNCHANGED othersBoard

\* lines 187-194: the request arrives, the cache is read and tested
LeaderboardGet(b, sortBy, page, limit) ==
  /\ ~InHitBranch
  /\ board.reqs[b].pc = "idle"
  /\ \A o \in BoardReqs : o < b => board.reqs[o].pc # "idle"
  /\ LET cachedData == CacheGet(board.entries[sortBy], board.now)
         arrived == [board.reqs[b] EXCEPT !.sortBy = sortBy, !.page = page,
                                          !.limit = limit]
     IN board' = [board EXCEPT !.reqs[b] =
                    IF Fresh(cachedData, board.now)
                      THEN [arrived EXCEPT !.pc = "hit", !.cachedData = cachedData,
                                           !.ageAtTest = board.now - cachedData[2]]
                      ELSE [arrived EXCEPT !.pc = "find"]]
  /\ UNCHANGED othersBoard

\* lines 195-198: the answer from the cache, with a second clock read
LeaderboardAnswerHit(b) ==
  /\ board.reqs[b].pc = "hit"
  /\ LET cachedData == board.reqs[b].cachedData
     IN board' = [board EXCEPT
                    !.reqs[b].pc = "done", !.reqs[b].status = 200,
                    !.reqs[b].fromCache = TRUE,
                    !.reqs[b].data = cachedData[1],
                    !.reqs[b].nextUpdateIn = NextUpdateIn(cachedData, board.now),
                    !.reqs[b].ageAtAnswer = board.now - cachedData[2],
                    !.reqs[b].cachedData = <<>>]
  /\ UNCHANGED othersBoard

\* lines 201-208: the metric of sortOption
SortOption(sortBy) ==
  IF sortBy = "voiceTime" THEN "voiceTime"
  ELSE IF sortBy = "stars" THEN "stars"
  ELSE "totalMessages"

\* find({}).sort({ [metric]: -1 }): the stored users, the largest first
Sorted(metric) ==
  [i \in 1..Cardinality(BoardUsers) |->
     BoardStore[CHOOSE u \in BoardUsers :
                  Cardinality({v \in BoardUsers :
                                 BoardStore[v][metric] > BoardStore[u][metric]}) = i - 1]]

\* .skip(skip).limit(limit)
SkipLimit(docs, skip, limit) ==
  SubSeq(docs, skip + 1, IF skip + limit < Len(docs) THEN skip + limit ELSE Len(docs))

\* lines 191 and 210-215: the page of the request
TopUsers(sortBy, page, limit) ==
  LET skip == (page - 1) * limit
  IN SkipLimit(Sorted(SortOption(sortBy)), skip, limit)

\* lines 201-215: the store is queried for the page of the request
LeaderboardFind(b) ==
  /\ ~InHitBranch
  /\ board.reqs[b].pc = "find"
  /\ board' = [board EXCEPT !.reqs[b].pc = "set",
                            !.reqs[b].topUsers =
                               TopUsers(board.reqs[b].sortBy, board.reqs[b].page,
                                        board.reqs[b].limit)]
  /\ UNCHANGED othersBoard

\* lines 217-222: cache.set under the sortBy key and the answer
LeaderboardSet(b) ==
  /\ ~InHitBranch
  /\ board.reqs[b].pc = "set"
  /\ LET topUsers == board.reqs[b].topUsers
     IN board' = [board EXCEPT
                    !.entries[board.reqs[b].sortBy] =
                       [set |-> TRUE, body |-> <<topUsers, board.now>>,
                        t |-> board.now + LEADERBOARD_CACHE_TTL * 1000],
                    !.reqs[b].pc = "done", !.reqs[b].status = 200,
                    !.reqs[b].data = topUsers,
                    !.reqs[b].nextUpdateIn = LEADERBOARD_CACHE_TTL * 1000,
                    !.reqs[b].topUsers = <<>>]
  /\ UNCHANGED othersBoard

\* lines 223-226: the query rejects and the request is answered 500
LeaderboardFails(b) ==
  /\ ~InHitBranch
  /\ board.reqs[b].pc = "find"
  /\ board' = [board EXCEPT !.reqs[b].pc = "done", !.reqs[b].status = 500]
  /\ UNCHANGED othersBoard

NextBoard ==
  \/ \E d \in ClockSteps : BoardTick(d)
  \/ \E b \in BoardReqs :
       \/ \E sortBy \in SortKeys, page \in Pages :
            LeaderboardGet(b, sortBy, page, DefaultLimit)
       \/ LeaderboardAnswerHit(b)
       \/ LeaderboardFind(b)
       \/ LeaderboardSet(b)
       \/ LeaderboardFails(b)

SpecBoard == InitBoard /\ [][NextBoard]_vars

\* the leaderboard requests answered 200
BoardAnswered == {b \in BoardReqs : board.reqs[b].pc = "done" /\ board.reqs[b].status = 200}

\* C17 as stated: an answer comes from the cache only if the entry was
\* younger than 300 s; nextUpdateIn is within 0..300000, is 300000 after a
\* query of the store and 300000 minus the age of the entry on a cache hit.
C17_NextUpdateInIsTtlMinusAge ==
  \A b \in BoardAnswered :
    LET r == board.reqs[b] IN
    /\ r.nextUpdateIn \in 0..300000
    /\ ~r.fromCache => r.nextUpdateIn = 300000
    /\ r.fromCache => /\ r.ageAtTest < 300000
                      /\ r.nextUpdateIn = 300000 - r.ageAtAnswer

\* C17 amended: as above, but on a cache hit nextUpdateIn is 300000 minus the
\* age the entry has when the answer is built, and 0 once that age has
\* passed 300000 ms; the age tested against 300 s is the one on arrival.
C17_NextUpdateInClamped ==
  \A b \in BoardAnswered :
    LET r == board.reqs[b] IN
    /\ r.nextUpdateIn \in 0..300000
    /\ ~r.fromCache => r.nextUpdateIn = 300000
    /\ r.fromCache => /\ r.ageAtTest < 300000
                      /\ r.ageAtAnswer >= r.ageAtTest
                      /\ r.ageAtAnswer <= 300000 => r.nextUpdateIn = 300000 - r.ageAtAnswer
                      /\ r.ageAtAnswer > 300000 => r.nextUpdateIn = 0

\* an entry of age 299999 ms is served, and one answer is built after the
\* entry passed 300000 ms
C17_Witness ==
  \E b \in BoardAnswered :
    /\ board.reqs[b].fromCache
    /\ board.reqs[b].ageAtTest = 299999
    /\ board.reqs[b].ageAtAnswer > 300000
    /\ board.reqs[b].nextUpdateIn = 0

\* ------------------------------------- the caches around a purchase
\* GET /profile/:uuid as a whole: the cached body while the entry lives,
\* otherwise the stored record, cached for ProfileTtl seconds
ServeProfile(entry, now, stars) ==
  LET cachedProfile == CacheGet(entry, now) IN
  IF cachedProfile # <<>>
  THEN [body |-> cachedProfile, entry |-> entry]
  ELSE [body |-> <<stars>>,
        entry |-> [set |-> TRUE, body |-> <<stars>>, t |-> now + ProfileTtl]]

\* GET /achievements/:uuid as a whole, with its own entry
ServeAchievements(entry, now) ==
  IF CacheGet(entry, now) # <<>> THEN entry
  ELSE [set |-> TRUE, body |-> <<"achievements">>, t |-> now + ProfileTtl]

othersCli == <<shop, rank, ach, prof, logins, counter, board, guild, view, tab>>

InitCli ==
  /\ ShopIdle
  /\ tab = Off
  /\ view = Off
  /\ guild = Off
  /\ rank = Off
  /\ ach = Off
  /\ prof = Off
  /\ logins = Off
  /\ counter = Off
  /\ board = Off
  /\ cli = NoCli

\* time passes
CacheTick ==
  /\ cli.now < MaxCacheTicks * (ProfileTtl \div 2)
  /\ cli' = [cli EXCEPT !.now = @ + ProfileTtl \div 2]
  /\ UNCHANGED othersCli

\* any reader requests GET /profile/:uuid
ReaderGetProfile ==
  /\ LET served == ServeProfile(cli.profileEntry, cli.now, cli.stars)
     IN cli' = [cli EXCEPT !.profileEntry = served.entry,
                           !.lastProfile = [body |-> served.body, at |-> cli.now,
                                            purchases |-> cli.purchases]]
  /\ UNCHANGED othersCli

\* any reader requests GET /achievements/:uuid
ReaderGetAchievements ==
  /\ cli' = [cli EXCEPT !.achievementsEntry = ServeAchievements(@, cli.now)]
  /\ UNCHANGED othersCli

\* inventory.js 65-99: fetchProfileData with an empty client cache
ClientFetchProfile ==
  /\ cli.pc = "idle"
  /\ cli.cachedProfileData = <<>>
  /\ LET served == ServeProfile(cli.profileEntry, cli.now, cli.stars)
     IN cli' = [cli EXCEPT !.profileEntry = served.entry,
                           !.cachedProfileData = served.body]
  /\ UNCHANGED othersCli

\* inventory.js 390-426: the shop is displayed: fetchShopData with an empty
\* shopDataCache, then fetchProfileData
ClientOpenShop ==
  /\ cli.pc = "idle"
  /\ cli.shopDataCache = <<>>
  /\ LET served == ServeProfile(cli.profileEntry, cli.now, cli.stars)
     IN IF cli.cachedProfileData # <<>>
        THEN cli' = [cli EXCEPT !.shopDataCache = <<"items">>]
        ELSE cli' = [cli EXCEPT !.shopDataCache = <<"items">>,
                                !.profileEntry = served.entry,
                                !.cachedProfileData = served.body]
  /\ UNCHANGED othersCli

\* inventory.js 803-810: logout empties both client caches
ClientLogout ==
  /\ cli.pc = "idle"
  /\ cli.cachedProfileData # <<>> \/ cli.shopDataCache # <<>>
  /\ cli' = [cli EXCEPT !.cachedProfileData = <<>>, !.shopDataCache = <<>>]
  /\ UNCHANGED othersCli

\* inventory.js 550-567: buyItem posts the purchase
ClientBuy(cost) ==
  /\ cli.pc = "idle"
  /\ cli.buys < MaxBuys
  /\ cli' = [cli EXCEPT !.pc = "posted", !.cost = cost, !.buys = @ + 1]
  /\ UNCHANGED othersCli

\* variant: the purchase deletes the profile entry of the buyer
ServerBuyCommitsAndInvalidates ==
  /\ cli.pc = "posted"
  /\ cli.stars >= cli.cost
  /\ cli' = [cli EXCEPT !.stars = @ - cli.cost, !.purchases = @ + 1, !.pc = "ok",
                        !.profileEntry = NoCacheEntry]
  /\ UNCHANGED othersCli

\* api.js 400-469: the purchase commits and is answered 200
ServerBuyCommits ==
  /\ cli.pc = "posted"
  /\ cli.stars >= cli.cost
  /\ cli' = [cli EXCEPT !.stars = @ - cli.cost, !.purchases = @ + 1, !.pc = "ok"]
  /\ UNCHANGED othersCli

\* api.js 409-445 and 470-473: the purchase is answered 404, 400 or 500
ServerBuyRejects ==
  /\ cli.pc = "posted"
  /\ cli' = [cli EXCEPT !.pc = "failed"]
  /\ UNCHANGED othersCli

\* inventory.js 569-573 and 587-590: the failure is thrown and alerted
ClientBuyFailed ==
  /\ cli.pc = "failed"
  /\ cli' = [cli EXCEPT !.pc = "idle", !.cost = 0]
  /\ UNCHANGED othersCli

\* inventory.js 575-580: the success is alerted, cachedProfileData[uuid] = null
ClientBuyClearsProfile ==
  /\ cli.pc = "ok"
  /\ cli' = [cli EXCEPT !.pc = "refetch", !.cost = 0, !.cachedProfileData = <<>>]
  /\ UNCHANGED othersCli

\* inventory.js 582-585: fetchProfileData (which may fail and cache nothing),
\* displayProfileData, shopDataCache = null
ClientRefetchProfile ==
  /\ cli.pc = "refetch"
  /\ LET served == ServeProfile(cli.profileEntry, cli.now, cli.stars)
     IN \/ cli' = [cli EXCEPT !.pc = "reshop", !.shopDataCache = <<>>,
                              !.profileEntry = served.entry,
                              !.cachedProfileData = served.body]
        \/ cli' = [cli EXCEPT !.pc = "reshop", !.shopDataCache = <<>>]
  /\ UNCHANGED othersCli

\* inventory.js 586: displayShopData fetches the shop again, then the profile
ClientReloadShop ==
  /\ cli.pc = "reshop"
  /\ LET served == ServeProfile(cli.profileEntry, cli.now, cli.stars)
     IN IF cli.cachedProfileData # <<>>
        THEN cli' = [cli EXCEPT !.pc = "idle", !.shopDataCache = <<"items">>]
        ELSE cli' = [cli EXCEPT !.pc = "idle", !.shopDataCache = <<"items">>,
                                !.profileEntry = served.entry,
                                !.cachedProfileData = served.body]
  /\ UNCHANGED othersCli

NextCli ==
  \/ CacheTick
  \/ ReaderGetProfile
  \/ ReaderGetAchievements
  \/ ClientFetchProfile
  \/ ClientOpenShop
  \/ ClientLogout
  \/ \E cost \in PurchaseCosts : ClientBuy(cost)
  \/ ServerBuyCommits
  \/ ServerBuyRejects
  \/ ClientBuyFailed
  \/ ClientBuyClearsProfile
  \/ ClientRefetchProfile
  \/ ClientReloadShop

SpecCli == InitCli /\ [][NextCli]_vars

\* C20: the step in which a purchase commits changes neither server entry
\* (nor a client cache); a profile read while the entry lives is answered
\* with the entry's body whatever the stored stars are; handling the success
\* the client empties cachedProfileData[uuid] and then shopDataCache; a
\* rejected purchase and its handling change no cache at all.
C20_PurchaseClearsOnlyClientCaches ==
  [][/\ cli'.purchases # cli.purchases =>
          /\ cli'.profileEntry = cli.profileEntry
          /\ cli'.achievementsEntry = cli.achievementsEntry
          /\ cli'.cachedProfileData = cli.cachedProfileData
          /\ cli'.shopDataCache = cli.shopDataCache
     /\ (cli'.lastProfile # cli.lastProfile /\ cli.profileEntry.set
           /\ cli.now <= cli.profileEntry.t) =>
          /\ cli'.lastProfile.body = cli.profileEntry.body
          /\ cli'.profileEntry = cli.profileEntry
     /\ (cli.pc = "ok" /\ cli'.pc # "ok") =>
          /\ cli'.cachedProfileData = <<>>
          /\ cli'.shopDataCache = cli.shopDataCache
          /\ cli'.profileEntry = cli.profileEntry
          /\ cli'.achievementsEntry = cli.achievementsEntry
     /\ (cli.pc = "refetch" /\ cli'.pc # "refetch") =>
          /\ cli'.shopDataCache = <<>>
          /\ cli'.achievementsEntry = cli.achievementsEntry
     /\ (cli'.pc = "failed") # (cli.pc = "failed") =>
          /\ cli'.profileEntry = cli.profileEntry
          /\ cli'.achievementsEntry = cli.achievementsEntry
          /\ cli'.cachedProfileData = cli.cachedProfileData
          /\ cli'.shopDataCache = cli.shopDataCache
          /\ cli'.stars = cli.stars]_vars

\* after a committed purchase a reader was answered the 100 stars cached
\* before it while fewer are stored, and the client, having emptied both of
\* its caches, holds the same stale profile again
C20_Witness ==
  /\ cli.purchases >= 1
  /\ cli.lastProfile.purchases >= 1
  /\ cli.lastProfile.body = <<100>>
  /\ cli.stars < 100
  /\ cli.achievementsEntry.set
  /\ cli.pc = "reshop"
  /\ cli.shopDataCache = <<>>
  /\ cli.cachedProfileData = <<100>>

\* ------------------------------------- a failed role or membership lookup
\* the purchases of one account for the priced item, or the logins of a user
\* whose record may not exist yet
InitAnyLogin ==
  /\ ShopIdle
  /\ tab = Off
  /\ view = Off
  /\ guild = Off
  /\ cli = Off
  /\ board = Off
  /\ counter = Off
  /\ rank = Off
  /\ ach = Off
  /\ prof = Off
  /\ \E roles \in SUBSET GuildRoles, stored \in BOOLEAN :
       logins = [NoLogin EXCEPT !.roles = roles, !.stored = stored,
                                !.user = IF stored THEN @ ELSE NewCommandStats]

InitLookup == Init \/ InitAnyLogin

NextLookup ==
  \/ /\ req # Off
     /\ \/ \E r \in Reqs, quantity \in Quantities : Receive(r, "a1", "u1", "n1", quantity)
        \/ \E r \in Reqs : FindUser(r)
        \/ \E r \in Reqs : FindItem(r)
        \/ \E r \in Reqs : SaveUser(r)
        \/ \E r \in Reqs : SaveItem(r)
        \/ \E r \in Reqs : SaveInventory(r)
        \/ \E r \in Reqs : Commit(r)
        \/ \E r \in Reqs : CommitFails(r)
        \/ \E r \in Reqs : Fail(r)
        \/ \E r \in Reqs : Catch(r)
        \/ \E r \in Reqs : Finish(r)
  \/ /\ logins # Off
     /\ NextLogin

SpecLookup == InitLookup /\ [][NextLookup]_vars

\* C21: a failed lookup is not retried.  In POST /buy the request whose role
\* lookup was refused has written nothing, and its only further step answers
\* 500 with the transaction aborted and the committed stars, stock and
\* inventories as they were.  A login whose membership lookup fails ends with
\* an error in that step, which neither creates nor changes the stored
\* record, and the login takes no further step.
C21_FailedLookupFailsTheOperation ==
  [][/\ req # Off =>
          \A r \in Reqs :
            /\ (req'[r].pc = "catch" /\ req'[r].thrown = "PlatformError"
                  /\ req[r].pc # "catch")
                 => req[r].pc = "findItem" /\ req'[r].written = NoWrite /\ db' = db
            /\ (req[r].pc = "catch" /\ req[r].thrown = "PlatformError"
                  /\ req'[r].pc # "catch")
                 => /\ req'[r].pc = "done"
                    /\ req'[r].status = 500
                    /\ req'[r].txn = "aborted"
                    /\ db' = db
     /\ logins # Off =>
          \A l \in LoginReqs :
            /\ (logins'.procs[l].error /\ ~logins.procs[l].error)
                 => /\ logins.procs[l].pc = "fetchMember"
                    /\ logins'.procs[l].pc = "done"
                    /\ logins'.user = logins.user
                    /\ logins'.stored = logins.stored
            /\ logins.procs[l].error => logins'.procs[l] = logins.procs[l]]_vars

\* a first login has failed on the lookup and the user still has no record
C21_Witness ==
  /\ logins # Off
  /\ ~logins.stored
  /\ \E l \in LoginReqs : logins.procs[l].pc = "done" /\ logins.procs[l].error

\* ------------------------------------------------- fetchUserGuildMember
othersGuild == <<shop, rank, ach, prof, logins, counter, board, cli, view, tab>>

InitGuild ==
  /\ ShopIdle
  /\ tab = Off
  /\ view = Off
  /\ cli = Off
  /\ board = Off
  /\ counter = Off
  /\ logins = Off
  /\ rank = Off
  /\ ach = Off
  /\ prof = Off
  /\ guild = NoGuild

\* the platform's data of a member changes (roles are granted or removed)
MemberChanges(u) ==
  /\ guild.remote[u] < MaxMemberVersion
  /\ guild' = [guild EXCEPT !.remote[u] = @ + 1]
  /\ UNCHANGED othersGuild

\* lines 98-110: the cached entry is returned at once; otherwise the request
\* to the platform is sent and awaited
FetchUserGuildMember(c, userId) ==
  /\ guild.calls[c].pc = "idle"
  /\ \A o \in MemberCalls : o < c => guild.calls[o].pc # "idle"
  /\ IF guild.userGuildMemberCache[userId] # <<>>
     THEN guild' = [guild EXCEPT
                      !.calls[c] = [pc |-> "done", userId |-> userId, contacted |-> FALSE,
                                    result |-> guild.userGuildMemberCache[userId]]]
     ELSE guild' = [guild EXCEPT
                      !.calls[c] = [pc |-> "fetching", userId |-> userId,
                                    contacted |-> TRUE, result |-> <<>>]]
  /\ UNCHANGED othersGuild

\* lines 118-121: the response is ok; its data is stored and returned
FetchResolves(c) ==
  /\ guild.calls[c].pc = "fetching"
  /\ LET userId == guild.calls[c].userId
         data == <<guild.remote[userId]>>
     IN guild' = [guild EXCEPT !.userGuildMemberCache[userId] = data,
                               !.calls[c].pc = "done",
                               !.calls[c].result = data]
  /\ UNCHANGED othersGuild

\* lines 112-116 and 122-125: the response is not ok or the request fails;
\* the error is caught and null is returned
FetchRejects(c) ==
  /\ guild.calls[c].pc = "fetching"
  /\ guild' = [guild EXCEPT !.calls[c].pc = "done", !.calls[c].result = <<>>]
  /\ UNCHANGED othersGuild

NextGuild ==
  \/ \E u \in GuildUsers : MemberChanges(u)
  \/ \E c \in MemberCalls, u \in GuildUsers : FetchUserGuildMember(c, u)
  \/ \E c \in MemberCalls : FetchResolves(c)
  \/ \E c \in MemberCalls : FetchRejects(c)

SpecGuild == InitGuild /\ [][NextGuild]_vars

\* C22: an entry of the member cache is never removed or replaced; a call
\* made while its userId has an entry returns that entry without contacting
\* the platform; a failed lookup returns null and stores nothing, and a call
\* made while its userId has no entry contacts the platform.
C22_MemberCacheNeverInvalidated ==
  [][/\ \A u \in GuildUsers :
          guild.userGuildMemberCache[u] # <<>>
            => guild'.userGuildMemberCache[u] = guild.userGuildMemberCache[u]
     /\ \A c \in MemberCalls :
          LET u == guild'.calls[c].userId IN
          /\ (guild.calls[c].pc = "idle" /\ guild'.calls[c].pc # "idle")
               => IF guild.userGuildMemberCache[u] # <<>>
                  THEN /\ guild'.calls[c].pc = "done"
                       /\ guild'.calls[c].result = guild.userGuildMemberCache[u]
                       /\ ~guild'.calls[c].contacted
                  ELSE guild'.calls[c].contacted
          /\ (guild.calls[c].pc = "fetching" /\ guild'.calls[c].pc = "done"
                /\ guild'.calls[c].result = <<>>)
               => guild'.userGuildMemberCache = guild.userGuildMemberCache]_vars

\* ------------------------------------ GET /leaderboard: the page answered
\* requests with any sortBy, page and limit
NextSlice ==
  \/ \E d \in ClockSteps : BoardTick(d)
  \/ \E b \in BoardReqs :
       \/ \E sortBy \in SortByValues, page \in Pages, limit \in Limits :
            LeaderboardGet(b, sortBy, page, limit)
       \/ LeaderboardAnswerHit(b)
       \/ LeaderboardFind(b)
       \/ LeaderboardSet(b)
       \/ LeaderboardFails(b)

SpecSlice == InitBoard /\ [][NextSlice]_vars

\* the metric the claim orders by
SliceMetric(sortBy) == IF sortBy \in {"voiceTime", "stars"} THEN sortBy ELSE "totalMessages"

\* the number of stored users ahead of username on the metric
Ahead(username, metric) ==
  Cardinality({v \in BoardUsers :
                 BoardStore[v][metric] > BoardStore[username][metric]})

\* C23: the data of an answered request is the users at the positions
\* (page-1)*limit+1 .. page*limit of the descending order of its metric:
\* entry i is the user with (page-1)*limit+i-1 users ahead, and the data
\* ends with the page or with the last stored user.
C23_AnswerIsRequestedSlice ==
  \A b \in BoardAnswered :
    LET r == board.reqs[b]
        first == (r.page - 1) * r.limit + 1
        last == r.page * r.limit
        users == Cardinality(BoardUsers)
        length == IF first > users THEN 0
                  ELSE (IF last < users THEN last ELSE users) - first + 1
    IN /\ Len(r.data) = length
       /\ \A i \in 1..Len(r.data) :
            /\ r.data[i] = BoardStore[r.data[i].username]
            /\ Ahead(r.data[i].username, SliceMetric(r.sortBy)) = first + i - 2

\* ------------------------------------- POST /buy with any integer quantity
\* line 405: the quantity of the body is used as it is sent
AnyQuantities == (0 - MaxQuantity)..MaxQuantity

NextQuantity ==
  \/ \E r \in Reqs, login \in Logins, itemName \in ItemNames, quantity \in AnyQuantities :
       Receive(r, login[1], login[2], itemName, quantity)
  \/ \E r \in Reqs : FindUser(r)
  \/ \E r \in Reqs : FindItem(r)
  \/ \E r \in Reqs : SaveUser(r)
  \/ \E r \in Reqs : SaveItem(r)
  \/ \E r \in Reqs : SaveInventory(r)
  \/ \E r \in Reqs : Commit(r)
  \/ \E r \in Reqs : CommitFails(r)
  \/ \E r \in Reqs : Fail(r)
  \/ \E r \in Reqs : Catch(r)
  \/ \E r \in Reqs : Finish(r)

SpecQuantity == Init /\ [][NextQuantity]_vars

\* C24: whatever the quantity of the body, no step of a purchase raises the
\* stars of a user or the stock of an item, lowers the quantity of an
\* inventory line, or adds a line or a document with a line below 1.
C24_NoQuantityRaisesStarsOrStock ==
  [][/\ \A u \in Users : db'.CommandStats[u].stars <= db.CommandStats[u].stars
     /\ \A i \in Items : db'.Item[i].stock <= db.Item[i].stock
     /\ \A k \in 1..Len(db'.Inventory) :
          \A j \in 1..Len(db'.Inventory[k].items) :
            IF k <= Len(db.Inventory) /\ j <= Len(db.Inventory[k].items)
            THEN db'.Inventory[k].items[j].quantity >= db.Inventory[k].items[j].quantity
            ELSE db'.Inventory[k].items[j].quantity >= 1]_vars

\* ------------------------------------------- the price the shop page shows
ShownRoleDiscount == 20
ShownWeekendDiscount == 5

\* inventory.js lines 465-473: the role discount is applied and rounded, then
\* the weekend discount is applied to the rounded price and rounded again
ShownPrice(originalPrice, hasDiscountRole, isWeekend) ==
  LET afterRole == IF hasDiscountRole
                   THEN MathRound(originalPrice * (100 - ShownRoleDiscount), 100)
                   ELSE originalPrice
  IN IF isWeekend
     THEN MathRound(afterRole * (100 - ShownWeekendDiscount), 100)
     ELSE afterRole

\* inventory.js lines 434-473: displayShopData prices the item
DisplayShopData ==
  /\ ~quote.displayed
  /\ LET isWeekend == quote.day = 6 \/ quote.day = 0
     IN quote' = [quote EXCEPT
                    !.displayed = TRUE,
                    !.shownPrice = ShownPrice(quote.price, quote.hasRole, isWeekend)]
  /\ UNCHANGED <<db, req, holders, issued, initial, side>>

NextDisplay == Quote \/ DisplayShopData

SpecDisplay == InitPrice /\ [][NextDisplay]_vars

\* C25: for the same price, day and role, the unit price the shop page shows
\* is the unit price POST /buy charges.
C25_ShownPriceIsChargedPrice ==
  (quote.computed /\ quote.displayed) => quote.shownPrice = quote.discountedPrice

\* C26: a request gets the success message in the very step in which its
\* transaction commits and its staged writes are applied, and in no other;
\* an answer of 404, 400 or 500 is given in the step that aborts the
\* transaction, which was open or had failed to commit; once a transaction
\* has committed its request takes no step but the return of the handler.
C26_SuccessIffCommitted ==
  [][\A r \in Reqs :
       /\ (req'[r].status = 200 /\ req[r].status # 200)
            <=> (req'[r].txn = "committed" /\ req[r].txn # "committed")
       /\ (req'[r].txn = "committed" /\ req[r].txn # "committed")
            => (req[r].txn = "active" /\ db' = Committed(r))
       /\ (req'[r].status \in {404, 400, 500} /\ req[r].status = 0)
            => /\ req[r].txn \in {"active", "commitFailed"}
               /\ req'[r].txn = "aborted"
               /\ db' = db
       /\ req[r].txn = "committed"
            => (req'[r] = req[r] \/ (req'[r] = Idle /\ db' = db))]_vars

\* one request committed and was answered 200, another had staged its debit
\* and was answered 500 after the abort
C26_Witness ==
  \E r \in Reqs, o \in Reqs :
    /\ req[r].pc = "done" /\ req[r].status = 200 /\ req[r].txn = "committed"
    /\ req[o].pc = "done" /\ req[o].status = 500 /\ req[o].txn = "aborted"
    /\ req[o].written.stars
    /\ db # initial

\* C27: when GET /profile/:uuid and GET /achievements/:uuid have both
\* evaluated the same record, the two achievement arrays are equal.
C27_ProfileAndAchievementsAgree ==
  (ach.profile # <<>> /\ ach.list # <<>>) => ach.profile = ach.list

\* both endpoints evaluated a record with voice time and a completed
\* message_master whose voice_time_10s is not completed
C27_Witness ==
  /\ ach.profile # <<>>
  /\ ach.list # <<>>
  /\ ach.list[1].completed
  /\ ach.list[4].progress > 0
  /\ ~ach.profile[4].completed

\* ---------------------------------------- the shop page's buy button
othersView == <<shop, rank, ach, prof, logins, counter, board, cli, guild, tab>>

InitView ==
  /\ ShopIdle
  /\ tab = Off
  /\ guild = Off
  /\ cli = Off
  /\ board = Off
  /\ counter = Off
  /\ logins = Off
  /\ rank = Off
  /\ ach = Off
  /\ prof = Off
  /\ \E userStars \in ViewStars, discountedPrice \in ViewPrices, stock \in ViewStocks :
       view = [NoView EXCEPT !.userStars = userStars,
                             !.discountedPrice = discountedPrice, !.stock = stock]

\* inventory.js line 534: updateQuantity(newQuantity)
UpdateQuantity(newQuantity) ==
  [view EXCEPT
     !.quantity = newQuantity,
     !.disabled = \/ view.userStars < view.discountedPrice * newQuantity
                  \/ (view.stock # Unlimited /\ view.stock < newQuantity)]

\* inventory.js lines 501-528: the item is rendered with quantity 1
RenderItem ==
  /\ ~view.rendered
  /\ view' = [view EXCEPT !.rendered = TRUE, !.quantity = 1,
                          !.disabled = view.userStars < view.discountedPrice]
  /\ UNCHANGED othersView

\* inventory.js lines 541-543: the plus button
PlusClick ==
  /\ view.rendered
  /\ view.quantity < MaxViewQuantity
  /\ view' = UpdateQuantity(view.quantity + 1)
  /\ UNCHANGED othersView

\* inventory.js lines 537-539: the minus button
MinusClick ==
  /\ view.rendered
  /\ view' = UpdateQuantity(IF view.quantity - 1 > 1 THEN view.quantity - 1 ELSE 1)
  /\ UNCHANGED othersView

NextView == RenderItem \/ PlusClick \/ MinusClick

SpecView == InitView /\ [][NextView]_vars

\* C28: once the item is rendered its quantity is at least 1, and whenever
\* the buy button is enabled the balance covers discountedPrice * quantity
\* and the stock is unlimited or at least the quantity.
C28_EnabledButtonIsAffordableAndInStock ==
  view.rendered =>
    /\ view.quantity >= 1
    /\ ~view.disabled =>
         /\ view.userStars >= view.discountedPrice * view.quantity
         /\ (view.stock = Unlimited \/ view.stock >= view.quantity)

\* ------------------------------------------- the shop tab's click handler
othersTab == <<shop, rank, ach, prof, logins, counter, board, cli, guild, view>>

InitTab ==
  /\ ShopIdle
  /\ guild = Off
  /\ view = Off
  /\ cli = Off
  /\ board = Off
  /\ counter = Off
  /\ logins = Off
  /\ rank = Off
  /\ ach = Off
  /\ prof = Off
  /\ \E stored \in TabUuids, param \in TabUuids :
       tab = [NoTab EXCEPT !.localStorage = stored, !.searchParams = param]

\* time passes
TabTick(d) ==
  /\ tab.ticks < MaxTabTicks
  /\ tab' = [tab EXCEPT !.now = @ + d, !.ticks = @ + 1]
  /\ UNCHANGED othersTab

\* inventory.js lines 705-712: the uuid of localStorage, else of the URL
TabUuid == IF tab.localStorage # "null" THEN tab.localStorage ELSE tab.searchParams

\* variant: a click that passes the test leaves the stamp as it was
ShopTabClickNoStamp ==
  /\ tab.clicks < MaxTabClicks
  /\ IF tab.now - tab.shopTabLastClicked < ThrottleMs
     THEN tab' = [tab EXCEPT !.clicks = @ + 1]
     ELSE IF TabUuid # "null"
     THEN tab' = [tab EXCEPT !.clicks = @ + 1,
                             !.localStorage = TabUuid,
                             !.cachedUuid = TabUuid,
                             !.loading = @ + 1,
                             !.loads = Append(@, tab.now)]
     ELSE tab' = [tab EXCEPT !.clicks = @ + 1]
  /\ UNCHANGED othersTab

\* inventory.js lines 689-722: a click on the shop tab, up to the call of
\* displayShopData
ShopTabClick ==
  /\ tab.clicks < MaxTabClicks
  /\ IF tab.now - tab.shopTabLastClicked < ThrottleMs
     THEN tab' = [tab EXCEPT !.clicks = @ + 1]
     ELSE IF TabUuid # "null"
     THEN tab' = [tab EXCEPT !.clicks = @ + 1,
                             !.shopTabLastClicked = tab.now,
                             !.localStorage = TabUuid,
                             !.cachedUuid = TabUuid,
                             !.loading = @ + 1,
                             !.loads = Append(@, tab.now)]
     ELSE tab' = [tab EXCEPT !.clicks = @ + 1, !.shopTabLastClicked = tab.now]
  /\ UNCHANGED othersTab

\* inventory.js lines 403-405: the shop data of a load arrives and is cached
ShopDataArrives ==
  /\ tab.loading > 0
  /\ tab' = [tab EXCEPT !.loading = @ - 1, !.shopDataCache = <<"items">>]
  /\ UNCHANGED othersTab

NextTab ==
  \/ \E d \in TabSteps : TabTick(d)
  \/ ShopTabClick
  \/ ShopDataArrives

SpecTab == InitTab /\ [][NextTab]_vars

\* C29: the loads started by tab clicks are at least 5000 ms apart, and a
\* load starts only in a click made 5000 ms or more after the stamp; a click
\* made within 5000 ms of the stamp starts no load and leaves the stamp, the
\* cached uuid, the stored uuid and the shop data cache as they were.
C29_TabLoadsThrottled ==
  /\ [](\A i \in 1..Len(tab.loads) : \A j \in 1..Len(tab.loads) :
          i < j => tab.loads[j] - tab.loads[i] >= 5000)
  /\ [][/\ tab'.loads # tab.loads
            => /\ tab'.clicks = tab.clicks + 1
               /\ tab.now - tab.shopTabLastClicked >= 5000
               /\ tab'.loads = Append(tab.loads, tab.now)
               /\ tab'.shopTabLastClicked = tab.now
        /\ (tab'.clicks # tab.clicks /\ tab.now - tab.shopTabLastClicked < 5000)
            => /\ tab'.shopTabLastClicked = tab.shopTabLastClicked
               /\ tab'.cachedUuid = tab.cachedUuid
               /\ tab'.localStorage = tab.localStorage
               /\ tab'.shopDataCache = tab.shopDataCache
               /\ tab'.loading = tab.loading
               /\ tab'.loads = tab.loads]_vars

\* two loads exactly 5000 ms apart with a refused click between them
C29_Witness ==
  /\ Len(tab.loads) = 2
  /\ tab.loads[2] - tab.loads[1] = 5000
  /\ tab.clicks = 3

====
